---- MODULE Spec2Model ----
(***************************************************************************)
(* typed-function: a composer of multiple-dispatch functions.              *)
(*                                                                         *)
(* The model follows src/src/typed.js (create, parseSignatures, parseTree, *)
(* _typed, find, addConversion), src/src/utils.js (Signature),             *)
(* src/unnamed/part_000 (Param) and src/src/node.js (Node).  The code      *)
(* generated by Node.prototype.toCode and Signature.prototype.toCode is    *)
(* modelled by its execution on an argument list.                          *)
(*                                                                         *)
(* Texts (signature strings) are sequences of tokens: a type name, ",",    *)
(* "|", "..." or " ".  Values are records [v, by]: v names the JavaScript  *)
(* value, by lists the conversion functions that were applied to it.       *)
(*                                                                         *)
(* Node is declared as Node(types, path, signature, childs, fallThrough)   *)
(* (node.js line 9) and constructed as new Node(path, nodeSignature,       *)
(* childs, fallThrough) (typed.js line 346).  The model binds the four     *)
(* arguments as the constructor's documentation names them (path,          *)
(* signature, childs, fallThrough) and lets getTypeTest look the name up   *)
(* in typed.types.                                                         *)
(*                                                                         *)
(* Array.prototype.sort is the engine's: the model takes it to be an       *)
(* insertion sort or a binary-insertion sort (SortImpls).                  *)
(***************************************************************************)
EXTENDS Integers, Sequences, FiniteSets, TLC

VARIABLES
  types,        \* typed.types: the registry, a sequence of type names
  conversions,  \* typed.conversions: a sequence of conversion records
  ignore,       \* typed.ignore: a sequence of type names
  raw,          \* the mapping given to typed(signatures) for fn
  fn,           \* the dispatcher that call returned, or the error it threw
  raw2,         \* what typed was given for fn2: a mapping, or <<>> for fn itself
  fn2,          \* a second dispatcher: typed(signatures) or typed(fn, ...)
  args,         \* <<a>> once the caller has called with the arguments a
  out,          \* the outcome of fn(args)
  out2,         \* the outcome of fn2(args), when fn2 is a dispatcher
  find1,        \* the text given to the last typed.find(fn, text)
  found,        \* what that call returned, or "throw"
  made,         \* the last createError call made directly: its arguments and result
  fn3,          \* the last typed(f1, ..., fn): its arguments, its result, err.data
  compared      \* three params and what Param.compare returned for their pairs

vars == <<types, conversions, ignore, raw, fn, raw2, fn2, args, out, out2,
          find1, found, made, fn3, compared>>

(***************************************************************************)
(* Bounds of the model.                                                    *)
(***************************************************************************)
MaxArgs == 3    \* longest argument list a call passes
MaxConv == 2    \* most conversions added with addConversion
MaxTypes == 2   \* most types added with addType
MaxIgnore == 1  \* most names pushed on typed.ignore

(***************************************************************************)
(* Sequences.                                                              *)
(***************************************************************************)
contains(array, item) == \E i \in 1..Len(array) : array[i] = item

last(array) == array[Len(array)]

\* Array.prototype.indexOf, 0-based, -1 when absent
indexOf(array, item) ==
  IF contains(array, item)
    THEN (CHOOSE i \in 1..Len(array) :
            array[i] = item /\ \A j \in 1..(i-1) : array[j] # item) - 1
    ELSE -1

\* Array.prototype.splice(t, 1) at the 0-based index t
splice1(array, t) ==
  [i \in 1..(Len(array) - 1) |-> IF i <= t THEN array[i] ELSE array[i + 1]]

RECURSIVE joinTokens(_, _)
\* Array.prototype.join on token sequences
joinTokens(parts, sep) ==
  IF parts = <<>> THEN <<>>
  ELSE IF Len(parts) = 1 THEN parts[1]
  ELSE parts[1] \o sep \o joinTokens(Tail(parts), sep)

RECURSIVE splitTokens(_, _)
\* String.prototype.split(sep) on a token sequence: always at least one piece
splitTokens(text, sep) ==
  IF ~contains(text, sep) THEN <<text>>
  ELSE LET k == indexOf(text, sep) + 1
       IN  <<SubSeq(text, 1, k - 1)>> \o
           splitTokens(SubSeq(text, k + 1, Len(text)), sep)

RECURSIVE trimLeft(_)
trimLeft(text) ==
  IF text # <<>> /\ text[1] = " " THEN trimLeft(Tail(text)) ELSE text

RECURSIVE trimRight(_)
trimRight(text) ==
  IF text # <<>> /\ text[Len(text)] = " "
    THEN trimRight(SubSeq(text, 1, Len(text) - 1))
    ELSE text

\* String.prototype.trim
trim(text) == trimRight(trimLeft(text))

(***************************************************************************)
(* Array.prototype.sort.  The comparator of Param is not consistent (two   *)
(* `any` params, or two params holding Object, compare as 1 both ways), so *)
(* the order depends on the engine's algorithm.  Both algorithms V8 has    *)
(* run on short arrays are modelled: the insertion sort of V8 up to 6.x    *)
(* and the binary insertion sort of its TimSort.  C is the matrix of the   *)
(* comparator's results on the indices of the array; NaN counts as 0.      *)
(***************************************************************************)
NaN == 99999

GT0(x) == x # NaN /\ x > 0
LT0(x) == x # NaN /\ x < 0

RECURSIVE insertionPos(_, _, _, _)
insertionPos(p, e, j, C) ==
  IF j >= 1 /\ GT0(C[p[j], e]) THEN insertionPos(p, e, j - 1, C) ELSE j

RECURSIVE insertionSort(_, _, _, _)
insertionSort(p, i, n, C) ==
  IF i > n THEN p
  ELSE LET j == insertionPos(p, i, Len(p), C)
       IN  insertionSort(SubSeq(p, 1, j) \o <<i>> \o SubSeq(p, j + 1, Len(p)),
                         i + 1, n, C)

RECURSIVE runLength(_, _, _, _)
\* CountAndMakeRun: the length of the run that starts the array
runLength(idx, n, descending, C) ==
  IF idx > n THEN n
  ELSE IF descending
         THEN IF ~LT0(C[idx, idx - 1]) THEN idx - 1
              ELSE runLength(idx + 1, n, descending, C)
         ELSE IF LT0(C[idx, idx - 1]) THEN idx - 1
              ELSE runLength(idx + 1, n, descending, C)

RECURSIVE binaryPos(_, _, _, _, _)
binaryPos(p, e, left, right, C) ==
  IF left >= right THEN left
  ELSE LET mid == left + ((right - left) \div 2)
       IN  IF LT0(C[e, p[mid + 1]])
             THEN binaryPos(p, e, left, mid, C)
             ELSE binaryPos(p, e, mid + 1, right, C)

RECURSIVE binaryInsertionSort(_, _, _, _)
binaryInsertionSort(p, i, n, C) ==
  IF i > n THEN p
  ELSE LET j == binaryPos(p, i, 0, Len(p), C)
       IN  binaryInsertionSort(SubSeq(p, 1, j) \o <<i>> \o SubSeq(p, j + 1, Len(p)),
                               i + 1, n, C)

timSort(n, C) ==
  IF n < 2 THEN [i \in 1..n |-> i]
  ELSE LET descending == LT0(C[2, 1])
           run == runLength(3, n, descending, C)
           first == IF descending THEN [i \in 1..run |-> run + 1 - i]
                    ELSE [i \in 1..run |-> i]
       IN  binaryInsertionSort(first, run + 1, n, C)

\* the permutation of 1..n that sort leaves, under the engine's algorithm
sortPerm(n, C, impl) ==
  IF impl = "insertion"
    THEN IF n = 0 THEN <<>> ELSE insertionSort(<<1>>, 2, n, C)
    ELSE timSort(n, C)

(***************************************************************************)
(* Param (src/unnamed/part_000).  conversions is the JavaScript array: its *)
(* length is the array's length and Hole stands for an index holding       *)
(* undefined.                                                              *)
(***************************************************************************)
Hole == [from |-> "", to |-> "", convert |-> ""]

\* the typed object: what typed.types, typed.conversions, typed.ignore hold
Typed(ts, cs, ig) == [types |-> ts, conversions |-> cs, ignore |-> ig]

\* a type name is one token; any other piece names no registered type
typeName(piece) == IF Len(piece) = 1 THEN piece[1] ELSE "?"

\* new Param(types) for a string
Param(text) ==
  LET t0 == trim(text)
      va == Len(t0) >= 1 /\ t0[1] = "..."
      t1 == IF va THEN Tail(t0) ELSE t0
      pieces == splitTokens(t1, "|")
  IN  [types |-> IF t1 = <<>> THEN <<"any">>
                 ELSE [i \in 1..Len(pieces) |-> typeName(trim(pieces[i]))],
       conversions |-> <<>>,
       varArgs |-> va]

\* new Param(types) for an array of type names
ParamOfTypes(ts, va) == [types |-> ts, conversions |-> <<>>, varArgs |-> va]

anyType(p) == contains(p.types, "any")

\* param.conversions[i] for the 0-based index i: a conversion, or undefined
conversionAt(p, i) ==
  IF i + 1 \in 1..Len(p.conversions) THEN p.conversions[i + 1] ELSE Hole

hasConversions(p) == Len(p.conversions) > 0

\* the first defined conversion of the param, or undefined
firstConversion(p) ==
  IF \E i \in 1..Len(p.conversions) : p.conversions[i] # Hole
    THEN p.conversions[CHOOSE i \in 1..Len(p.conversions) :
                         /\ p.conversions[i] # Hole
                         /\ \A j \in 1..(i - 1) : p.conversions[j] = Hole]
    ELSE Hole

\* the index of a type name in the registry; NaN stands for undefined
typeIndex(name, typed) ==
  IF contains(typed.types, name) THEN indexOf(typed.types, name) ELSE NaN

minus(a, b) == IF a = NaN \/ b = NaN THEN NaN ELSE a - b

\* a comparator that orders the params by the registry alone
ParamCompareByRegistry(a, b, typed) ==
  minus(typeIndex(a.types[1], typed), typeIndex(b.types[1], typed))

\* Param.compare
ParamCompare(a, b, typed) ==
  IF anyType(a) THEN 1
  ELSE IF anyType(b) THEN -1
  ELSE IF contains(a.types, "Object") THEN 1
  ELSE IF contains(b.types, "Object") THEN -1
  ELSE IF hasConversions(a)
    THEN IF hasConversions(b)
           THEN indexOf(typed.conversions, firstConversion(a)) -
                indexOf(typed.conversions, firstConversion(b))
           ELSE 1
    ELSE IF hasConversions(b) THEN -1
         ELSE minus(typeIndex(a.types[1], typed), typeIndex(b.types[1], typed))

overlapping(p, other) ==
  \E i \in 1..Len(p.types) : contains(other.types, p.types[i])

matches(p, other) == anyType(p) \/ anyType(other) \/ overlapping(p, other)

\* Param.prototype.contains, for the map built from typed.ignore
paramContains(p, ignored) ==
  \E i \in 1..Len(p.types) : contains(ignored, p.types[i])

RECURSIVE dedupe(_, _)
\* the names in order, each kept at its first occurrence
dedupe(names, seen) ==
  IF names = <<>> THEN <<>>
  ELSE IF contains(seen, names[1]) THEN dedupe(Tail(names), seen)
  ELSE <<names[1]>> \o dedupe(Tail(names), Append(seen, names[1]))

\* Param.prototype.toString() (toConversion not given)
paramToString(p) ==
  (IF p.varArgs THEN <<"...">> ELSE <<>>) \o
  joinTokens([i \in 1..Len(dedupe(p.types, <<>>)) |-> <<dedupe(p.types, <<>>)[i]>>],
             <<"|">>)

(***************************************************************************)
(* Signature (src/src/utils.js).                                           *)
(***************************************************************************)
\* new Signature(params, fn) for a string: the params it holds
signatureParams(text) ==
  LET pieces == IF text # <<>> THEN splitTokens(text, ",") ELSE <<>>
  IN  [i \in 1..Len(pieces) |-> Param(pieces[i])]

\* the constructor throws SyntaxError for "..." on a param that is not the last
signatureSyntaxError(text) ==
  LET ps == signatureParams(text)
  IN  \E i \in 1..(Len(ps) - 1) : ps[i].varArgs

\* id tells the Signature objects of one compilation apart (0 before that)
Signature(params, f) == [params |-> params, fn |-> f, id |-> 0]

sigAnyType(s) == \E i \in 1..Len(s.params) : anyType(s.params[i])

sigVarArgs(s) == Len(s.params) > 0 /\ last(s.params).varArgs

\* the conversions whose `to` the param accepts and whose `from` it does not
applicable(param, typed) ==
  SelectSeq(typed.conversions,
            LAMBDA c : ~contains(param.types, c.from) /\ contains(param.types, c.to))

\* the variadic param with one entry added per applicable conversion
expandVarArgs(param, typed) ==
  LET cs == applicable(param, typed)
      n == Len(param.types)
  IN  IF cs = <<>> THEN param
      ELSE [types |-> param.types \o [i \in 1..Len(cs) |-> cs[i].from],
            conversions |-> [i \in 1..(n + Len(cs)) |->
                               IF i <= n THEN conversionAt(param, i - 1)
                               ELSE cs[i - n]],
            varArgs |-> param.varArgs]

\* the branches of a non-variadic param: its types, then its conversions
expandParam(param, typed) ==
  LET cs == applicable(param, typed)
  IN  [i \in 1..Len(param.types) |-> ParamOfTypes(<<param.types[i]>>, FALSE)] \o
      [i \in 1..Len(cs) |->
         [types |-> <<cs[i].from>>, conversions |-> <<cs[i]>>, varArgs |-> FALSE]]

RECURSIVE recurse(_, _, _)
RECURSIVE recurseAll(_, _, _, _)
\* Signature.prototype.expand: the paths below `path`, depth first
recurse(signature, path, typed) ==
  IF Len(path) < Len(signature.params)
    THEN LET param == signature.params[Len(path) + 1]
         IN  IF param.varArgs
               THEN recurse(signature, Append(path, expandVarArgs(param, typed)), typed)
               ELSE recurseAll(signature, path, expandParam(param, typed), typed)
    ELSE <<Signature(path, signature.fn)>>

recurseAll(signature, path, branches, typed) ==
  IF branches = <<>> THEN <<>>
  ELSE recurse(signature, Append(path, branches[1]), typed) \o
       recurseAll(signature, path, Tail(branches), typed)

expand(signature, typed) == recurse(signature, <<>>, typed)

sigConversionCount(s) ==
  Cardinality({i \in 1..Len(s.params) : hasConversions(s.params[i])})

RECURSIVE compareParams(_, _, _, _)
compareParams(a, b, i, typed) ==
  IF i > Len(a.params) THEN 0
  ELSE LET cmp == ParamCompare(a.params[i], b.params[i], typed)
       IN  IF cmp # 0 THEN cmp ELSE compareParams(a, b, i + 1, typed)

SignatureCompare(a, b, typed) ==
  IF Len(a.params) > Len(b.params) THEN 1
  ELSE IF Len(a.params) < Len(b.params) THEN -1
  ELSE IF sigConversionCount(a) > sigConversionCount(b) THEN 1
  ELSE IF sigConversionCount(a) < sigConversionCount(b) THEN -1
  ELSE compareParams(a, b, 1, typed)

sigHasConversions(s) == \E i \in 1..Len(s.params) : hasConversions(s.params[i])

sigIgnore(s, ignored) == \E i \in 1..Len(s.params) : paramContains(s.params[i], ignored)

\* this.params[i] || (aLast.varArgs ? aLast : null), for the 1-based i
paramOrLast(params, i) ==
  IF i <= Len(params) THEN <<params[i]>>
  ELSE IF Len(params) > 0 /\ last(params).varArgs THEN <<last(params)>>
  ELSE <<>>

paramsStartWith(s, params) ==
  \/ Len(params) = 0
  \/ \A i \in 1..Len(params) :
       LET a == paramOrLast(s.params, i)
           b == paramOrLast(params, i)
       IN  a # <<>> /\ b # <<>> /\ matches(a[1], b[1])

\* Signature.prototype.toString
sigToString(s) ==
  joinTokens([i \in 1..Len(s.params) |-> paramToString(s.params[i])], <<",", " ">>)

(***************************************************************************)
(* parseSignatures (src/src/typed.js).  A mapping is the sequence of the   *)
(* object's own properties in insertion order, each <<text, fn>>.  `keys`  *)
(* is the object of the code as a sequence of [key, signature] in          *)
(* insertion order.  A result is [error, value]; error = "" when none was  *)
(* thrown.                                                                 *)
(***************************************************************************)
keyIndex(keys, key) ==
  IF \E i \in 1..Len(keys) : keys[i].key = key
    THEN CHOOSE i \in 1..Len(keys) : keys[i].key = key
    ELSE 0

RECURSIVE addExpanded(_, _, _)
\* lines 139-155: enter the expanded signatures into keys
addExpanded(keys, expanded, typed) ==
  IF expanded = <<>> THEN [error |-> "", value |-> keys]
  ELSE LET signature_i == expanded[1]
           key == sigToString(signature_i)
           k == keyIndex(keys, key)
       IN  IF k = 0
             THEN addExpanded(Append(keys, [key |-> key, signature |-> signature_i]),
                              Tail(expanded), typed)
             ELSE LET cmp == SignatureCompare(signature_i, keys[k].signature, typed)
                  IN  IF LT0(cmp)
                        THEN addExpanded([keys EXCEPT ![k].signature = signature_i],
                                         Tail(expanded), typed)
                      ELSE IF cmp = 0
                        THEN [error |-> "defined twice", value |-> keys]
                      ELSE addExpanded(keys, Tail(expanded), typed)

\* lines 128-156: the body of the loop, for the property <<text, f>>; r is
\* what the loop has built so far
collectKey(r, text, f, typed) ==
  IF r.error # "" THEN r
  ELSE IF signatureSyntaxError(text) THEN [error |-> "SyntaxError", value |-> r.value]
  ELSE IF sigIgnore(Signature(signatureParams(text), f), typed.ignore) THEN r
  ELSE addExpanded(r.value, expand(Signature(signatureParams(text), f), typed), typed)

RECURSIVE collectKeys(_, _, _, _)
\* lines 127-157: the loop over the own properties of rawSignatures
collectKeys(rawSignatures, i, r, typed) ==
  IF i > Len(rawSignatures) THEN r
  ELSE collectKeys(rawSignatures, i + 1,
                   collectKey(r, rawSignatures[i][1], rawSignatures[i][2], typed),
                   typed)

\* signatures.sort(Signature.compare)
sortSignatures(signatures, typed, impl) ==
  LET n == Len(signatures)
      C == [i \in 1..n, j \in 1..n |->
              SignatureCompare(signatures[i], signatures[j], typed)]
      perm == sortPerm(n, C, impl)
  IN  [i \in 1..n |-> signatures[perm[i]]]

\* lines 185-200: whether another signature makes entry t of the param redundant
redundant(signatures, i, index, type) ==
  \E j \in 1..Len(signatures) :
    /\ j # i
    /\ Len(signatures[j].params) > index
    /\ contains(signatures[j].params[index + 1].types, type)
    /\ conversionAt(signatures[j].params[index + 1], index) = Hole

RECURSIVE pruneParam(_, _, _, _)
\* lines 180-204: the while loop over the types of the variadic param
pruneParam(signatures, i, index, t) ==
  LET param == signatures[i].params[index + 1]
  IN  IF t >= Len(param.types) THEN signatures
      ELSE IF conversionAt(param, t) # Hole /\
              redundant(signatures, i, index, param.types[t + 1])
        THEN pruneParam(
               [signatures EXCEPT ![i].params[index + 1] =
                  [types |-> splice1(param.types, t),
                   conversions |-> splice1(param.conversions, t),
                   varArgs |-> param.varArgs]],
               i, index, t)
        ELSE pruneParam(signatures, i, index, t + 1)

RECURSIVE pruneAll(_, _)
\* lines 173-206: the loop over the sorted signatures
pruneAll(signatures, i) ==
  IF i > Len(signatures) THEN signatures
  ELSE IF sigVarArgs(signatures[i])
    THEN pruneAll(pruneParam(signatures, i, Len(signatures[i].params) - 1, 0), i + 1)
    ELSE pruneAll(signatures, i + 1)

\* lines 159-208: the signatures of keys, sorted, the variadic ones pruned
sortedSignatures(r, typed, impl) ==
  IF r.error # "" THEN [error |-> r.error, value |-> <<>>]
  ELSE [error |-> "",
        value |-> pruneAll(
          sortSignatures([i \in 1..Len(r.value) |->
                            [r.value[i].signature EXCEPT !.id = i]],
                         typed, impl), 1)]

parseSignatures(rawSignatures, typed, impl) ==
  sortedSignatures(
    collectKeys(rawSignatures, 1, [error |-> "", value |-> <<>>], typed),
    typed, impl)

filterAnyTypeSignatures(signatures) == SelectSeq(signatures, sigAnyType)

\* fn.signatures: the object as a sequence of <<params.join(','), fn>>, a
\* later assignment to a key that exists replacing its value in place
RECURSIVE mapSignaturesFrom(_, _)
mapSignaturesFrom(signatures, normalized) ==
  IF signatures = <<>> THEN normalized
  ELSE LET signature == signatures[1]
           params == joinTokens([i \in 1..Len(signature.params) |->
                                   paramToString(signature.params[i])], <<",">>)
           k == IF \E i \in 1..Len(normalized) : normalized[i][1] = params
                  THEN CHOOSE i \in 1..Len(normalized) : normalized[i][1] = params
                  ELSE 0
       IN  IF sigHasConversions(signature)
             THEN mapSignaturesFrom(Tail(signatures), normalized)
           ELSE IF k = 0
             THEN mapSignaturesFrom(Tail(signatures),
                                    Append(normalized, <<params, signature.fn>>))
           ELSE mapSignaturesFrom(Tail(signatures),
                                  [normalized EXCEPT ![k] = <<params, signature.fn>>])

mapSignatures(signatures) == mapSignaturesFrom(signatures, <<>>)

(***************************************************************************)
(* parseTree (src/src/typed.js) and Node (src/src/node.js).  A node is     *)
(* [path, signature, childs, fallThrough, error]: parseTree hands these    *)
(* four values to new Node, and error = "" unless building the node threw. *)
(***************************************************************************)
NoSignature == [params |-> <<>>, fn |-> "null", id |-> 0]

Node(path, signature, childs, fallThrough, error) ==
  [path |-> path, signature |-> signature, childs |-> childs,
   fallThrough |-> fallThrough, error |-> error]

\* this.param: the last param of the path; the root has none
hasParam(node) == Len(node.path) > 0
nodeParam(node) == last(node.path)

\* lines 262-273: the first signature with `index` params
nodeSignatureOf(signatures, index) ==
  IF \E i \in 1..Len(signatures) : Len(signatures[i].params) = index
    THEN signatures[CHOOSE i \in 1..Len(signatures) :
                      /\ Len(signatures[i].params) = index
                      /\ \A j \in 1..(i - 1) : Len(signatures[j].params) # index]
    ELSE NoSignature

\* lines 270-278: the signatures with a param at index, sorted by that param
sortFiltered(signatures, index, typed, impl) ==
  LET filtered == SelectSeq(signatures, LAMBDA x : Len(x.params) > index)
      n == Len(filtered)
      C == [i \in 1..n, j \in 1..n |->
              ParamCompare(filtered[i].params[index + 1],
                           filtered[j].params[index + 1], typed)]
      perm == sortPerm(n, C, impl)
  IN  [i \in 1..n |-> filtered[perm[i]]]

RECURSIVE groupEntries(_, _, _)
\* lines 281-313: group the signatures by overlapping params
groupEntries(filtered, index, entries) ==
  IF filtered = <<>> THEN [error |-> "", value |-> entries]
  ELSE LET signature == filtered[1]
           param == signature.params[index + 1]
           hit == {i \in 1..Len(entries) : overlapping(entries[i].param, param)}
       IN  IF hit # {}
             THEN LET e == CHOOSE i \in hit : \A j \in hit : i <= j
                  IN  IF entries[e].param.varArgs
                        THEN [error |-> "Conflicting types", value |-> entries]
                        ELSE groupEntries(Tail(filtered), index,
                               [entries EXCEPT ![e].signatures = Append(@, signature)])
             ELSE groupEntries(Tail(filtered), index,
                    Append(entries, [param |-> param, signatures |-> <<signature>>]))

firstError(nodes) ==
  IF \E i \in 1..Len(nodes) : nodes[i].error # ""
    THEN nodes[CHOOSE i \in 1..Len(nodes) :
                 nodes[i].error # "" /\ \A j \in 1..(i - 1) : nodes[j].error = ""].error
    ELSE ""

RECURSIVE parseTree(_, _, _, _, _)
parseTree(signatures, path, anys, typed, impl) ==
  LET index == Len(path)
      nodeSignature == nodeSignatureOf(signatures, index)
      grouped == groupEntries(sortFiltered(signatures, index, typed, impl), index, <<>>)
      entries == grouped.value
      matchingAnys == SelectSeq(anys, LAMBDA x : paramsStartWith(x, path))
      fallThrough == \E i \in 1..Len(matchingAnys) :
                       ~contains(signatures, matchingAnys[i])
  IN  IF grouped.error # ""
        THEN Node(path, nodeSignature, <<>>, fallThrough, grouped.error)
        ELSE LET childs == [i \in 1..Len(entries) |->
                              parseTree(entries[i].signatures,
                                        Append(path, entries[i].param),
                                        matchingAnys, typed, impl)]
             IN  Node(path, nodeSignature, childs, fallThrough, firstError(childs))

(***************************************************************************)
(* Values and type tests.  A value is [v, by]; the tests are those of the  *)
(* registry of typed.js lines 468-524 on the values of the model.          *)
(***************************************************************************)
Value(v) == [v |-> v, by |-> <<>>]

Undefined == Value("undefined")

\* the values an entry's test accepts, by the entry's name
accepted(name) ==
  CASE name = "number" -> {"1", "2"}
    [] name = "string" -> {"x"}
    [] name = "boolean" -> {"true"}
    [] name = "Array" -> {"[]"}
    [] name = "Object" -> {"[]", "person"}
    [] name = "undefined" -> {"undefined"}
    [] name = "Person" -> {"person"}     \* a type the caller adds: x.isPerson
    [] name = "Symbol" -> {"sym"}        \* a type the caller adds: typeof x === 'symbol'
    [] OTHER -> {}

typeTest(name, x) == x.by = <<>> /\ x.v \in accepted(name)

RECURSIVE firstAccepting(_, _, _)
\* typed.js lines 450-459: the first entry from the i-th on that is not
\* 'Object' and accepts x, 0 when there is none
firstAccepting(registry, i, x) ==
  IF i > Len(registry) THEN 0
  ELSE IF registry[i] # "Object" /\ typeTest(registry[i], x) THEN i
  ELSE firstAccepting(registry, i + 1, x)

\* a classification by the first entry that accepts, `Object` as any other
getTypeOfInOrder(x, registry) ==
  IF \E i \in 1..Len(registry) : typeTest(registry[i], x)
    THEN registry[CHOOSE i \in 1..Len(registry) :
                    typeTest(registry[i], x) /\ \A j \in 1..(i - 1) : ~typeTest(registry[j], x)]
    ELSE "unknown"

\* typed.js lines 447-465, over the registry as it is when it is called
getTypeOf(x, registry) ==
  IF firstAccepting(registry, 1, x) # 0 THEN registry[firstAccepting(registry, 1, x)]
  ELSE IF contains(registry, "Object") /\ typeTest("Object", x) THEN "Object"
  ELSE "unknown"

\* the value passes the test of one of the param's types
accepts(param, x) == \E k \in 1..Len(param.types) : typeTest(param.types[k], x)

\* conversion.convert(x)
convert(conversion, x) == [v |-> x.v, by |-> Append(x.by, conversion.convert)]

\* String.prototype.toLowerCase, on the names of the model
toLowerCase(name) ==
  CASE name = "Number" -> "number"
    [] name = "STRING" -> "string"
    [] name = "Foo" -> "foo"
    [] name = "Function" -> "function"
    [] name = "Array" -> "array"
    [] name = "Date" -> "date"
    [] name = "RegExp" -> "regexp"
    [] name = "Object" -> "object"
    [] name = "Person" -> "person"
    [] name = "Symbol" -> "symbol"
    [] OTHER -> name

\* node.js lines 153-160: the first registered name that equals the name
\* looked up when both are in lower case, "" when there is none
hintFor(name, registry) ==
  IF \E i \in 1..Len(registry) : toLowerCase(registry[i]) = toLowerCase(name)
    THEN registry[CHOOSE i \in 1..Len(registry) :
                    /\ toLowerCase(registry[i]) = toLowerCase(name)
                    /\ \A j \in 1..(i - 1) : toLowerCase(registry[j]) # toLowerCase(name)]
    ELSE ""

\* Node.prototype.getTypeTest: whether the lookup throws 'Unknown type'
unknownType(name, typed) == ~contains(typed.types, name)

\* the names a node's code looks up with getTypeTest (node.js lines 58, 89, 119)
testedTypes(node) ==
  IF ~hasParam(node) \/ anyType(nodeParam(node)) THEN <<>>
  ELSE IF nodeParam(node).varArgs THEN nodeParam(node).types
  ELSE <<nodeParam(node).types[1]>>

RECURSIVE toCodeError(_, _)
\* the error Node.prototype.toCode throws while the code is generated, or ""
toCodeError(node, typed) ==
  IF \E i \in 1..Len(testedTypes(node)) : unknownType(testedTypes(node)[i], typed)
    THEN "Unknown type"
  ELSE firstError([i \in 1..Len(node.childs) |->
                     [error |-> toCodeError(node.childs[i], typed)]])

RECURSIVE unknownTypeOf(_, _)
\* the name in the 'Unknown type' error Node.prototype.toCode throws: that of
\* the first lookup that fails, the node's own tests before its childs'
unknownTypeOf(node, typed) ==
  LET own == SelectSeq(testedTypes(node), LAMBDA t : unknownType(t, typed))
      failing == {i \in 1..Len(node.childs) : toCodeError(node.childs[i], typed) # ""}
  IN  IF own # <<>> THEN own[1]
      ELSE IF failing = {} THEN ""
      ELSE unknownTypeOf(node.childs[CHOOSE i \in failing : \A j \in failing : i <= j],
                         typed)

(***************************************************************************)
(* The generated function, by its execution on the argument list a.  An    *)
(* outcome is [kind, fn, args, error]: kind "return" (the implementation   *)
(* fn was invoked with args), "throw" (createError's error was thrown),    *)
(* "ReferenceError" (the code read a variable it never declared) or        *)
(* "none" (the code ran to its end: the call returns undefined).           *)
(***************************************************************************)
NoError == [fn |-> "", index |-> -1, actual |-> Undefined, expected |-> <<>>,
            message |-> ""]

Outcome(kind, f, actuals, error) ==
  [kind |-> kind, fn |-> f, args |-> actuals, error |-> error]

None == Outcome("none", "", <<>>, NoError)

\* arguments[i], for the 0-based i
arg(a, i) == IF i < Len(a) THEN a[i + 1] ELSE Undefined

\* one actual parameter of an implementation: a value, or the varArgs list
One(x) == [rest |-> FALSE, items |-> <<x>>]
Rest(xs) == [rest |-> TRUE, items |-> xs]

\* an error that names the first argument, whichever one did not fit
createErrorAtFirst(name, argCount, index, actual, expected) ==
  [fn |-> name, index |-> 0, actual |-> actual, expected |-> <<>>,
   message |-> "Unexpected type of argument"]

\* an error classified without regard to `any` among the expected types
createErrorIgnoringAny(name, argCount, index, actual, expected) ==
  [fn |-> name, index |-> index, actual |-> actual,
   expected |-> IF expected = <<>> THEN <<>>
                ELSE [i \in 1..Len(splitTokens(expected, ",")) |->
                        typeName(splitTokens(expected, ",")[i])],
   message |-> IF expected # <<>>
                 THEN IF argCount > index THEN "Unexpected type of argument"
                      ELSE "Too few arguments"
                 ELSE "Too many arguments"]

\* typed.js lines 61-113; expected is the text given, <<>> when it is absent
\* or empty (`expected ? ... : null` takes both the same way)
createError(name, argCount, index, actual, expected) ==
  LET pieces == IF expected # <<>> THEN splitTokens(expected, ",") ELSE <<>>
      _expected == [i \in 1..Len(pieces) |-> typeName(pieces[i])]
      isAny == contains(_expected, "any")
  IN  [fn |-> name, index |-> index, actual |-> actual, expected |-> _expected,
       message |-> IF expected # <<>>
                     THEN IF argCount > index /\ ~isAny
                            THEN "Unexpected type of argument"
                            ELSE "Too few arguments"
                     ELSE "Too many arguments"]

Throw(error) == Outcome("throw", "", <<>>, error)

\* Signature.prototype.toCode (utils.js lines 274-304), executed.  varArgs is
\* <<list>> where the code has assigned the variable, <<>> where it has not;
\* declared tells whether the function declares `var varArgs` at all.
callSignature(signature, a, varArgs, declared) ==
  IF ~declared /\ varArgs = <<>> /\ sigVarArgs(signature)
    THEN Outcome("ReferenceError", "", <<>>, NoError)
    ELSE Outcome("return", signature.fn,
           [i \in 1..Len(signature.params) |->
              IF signature.params[i].varArgs
                THEN IF varArgs = <<>> THEN One(Undefined) ELSE Rest(varArgs[1])
              ELSE IF conversionAt(signature.params[i], 0) # Hole
                THEN One(convert(conversionAt(signature.params[i], 0), arg(a, i - 1)))
              ELSE One(arg(a, i - 1))],
           NoError)

\* node.js lines 63-69: the types of the param that carry no conversion
exactTypes(param) ==
  SelectSeq([i \in 1..Len(param.types) |-> [type |-> param.types[i], i |-> i - 1]],
            LAMBDA e : conversionAt(param, e.i) = Hole)

exactTypesText(param) ==
  joinTokens([i \in 1..Len(exactTypes(param)) |-> <<exactTypes(param)[i].type>>],
             <<",">>)

\* node.js lines 86-97: the entries of the param that carry a conversion
convertingTypes(param) ==
  SelectSeq([i \in 1..Len(param.types) |-> [type |-> param.types[i], i |-> i - 1]],
            LAMBDA e : conversionAt(param, e.i) # Hole)

RECURSIVE varArgsLoop(_, _, _, _, _, _)
\* node.js lines 75-107: collect arguments[i..] into varArgs, then call
varArgsLoop(node, a, i, varArgs, name, declared) ==
  LET param == nodeParam(node)
      x == arg(a, i)
      conv == SelectSeq(convertingTypes(param), LAMBDA e : typeTest(e.type, x))
  IN  IF i >= Len(a)
        THEN callSignature(node.signature, a, <<varArgs>>, declared)
      ELSE IF \E k \in 1..Len(exactTypes(param)) : typeTest(exactTypes(param)[k].type, x)
        THEN varArgsLoop(node, a, i + 1, Append(varArgs, x), name, declared)
      ELSE IF conv # <<>>
        THEN varArgsLoop(node, a, i + 1,
                         Append(varArgs, convert(conversionAt(param, conv[1].i), x)),
                         name, declared)
      ELSE Throw(createError(name, Len(a), i, x, exactTypesText(param)))

RECURSIVE childTypesWithConversions(_, _)
\* the types of the childs, those that carry a conversion included
childTypesWithConversions(childs, keys) ==
  IF childs = <<>> THEN keys
  ELSE childTypesWithConversions(Tail(childs),
         keys \o dedupe(nodeParam(childs[1]).types, keys))

\* node.js lines 228-242: the direct types of the childs, each once
RECURSIVE childTypes(_, _)
childTypes(childs, keys) ==
  IF childs = <<>> THEN keys
  ELSE LET direct == exactTypes(nodeParam(childs[1]))
       IN  childTypes(Tail(childs),
                      keys \o dedupe([j \in 1..Len(direct) |-> direct[j].type], keys))

\* Node.prototype._exceptions, executed
exceptions(node, a, name) ==
  IF Len(node.childs) = 0 /\ Len(a) <= Len(node.path) THEN None
  ELSE Throw(createError(name, Len(a), Len(node.path), arg(a, Len(node.path)),
         IF Len(node.childs) = 0 THEN <<>>
         ELSE joinTokens([j \in 1..Len(childTypes(node.childs, <<>>)) |->
                            <<childTypes(node.childs, <<>>)[j]>>], <<",">>)))

RECURSIVE toCode(_, _, _, _)
RECURSIVE runChilds(_, _, _, _, _)
RECURSIVE orElse(_, _, _, _, _, _)
RECURSIVE _innerCode(_, _, _, _)

\* node.js lines 110-128: whether the code of a regular param reaches its
\* inner code (no test for `any`, else the test of the param's one type)
passes(param, x) == anyType(param) \/ typeTest(param.types[1], x)

\* Node.prototype.toCode, executed
toCode(node, a, name, declared) ==
  IF ~hasParam(node) \/ (~nodeParam(node).varArgs /\
                         passes(nodeParam(node), arg(a, Len(node.path) - 1)))
    THEN _innerCode(node, a, name, declared)
  ELSE IF ~nodeParam(node).varArgs THEN None
  ELSE IF anyType(nodeParam(node))
    THEN IF Len(a) > Len(node.path) - 1
           THEN callSignature(node.signature, a,
                              <<SubSeq(a, Len(node.path), Len(a))>>, declared)
           ELSE None
  ELSE IF accepts(nodeParam(node), arg(a, Len(node.path) - 1))
    THEN varArgsLoop(node, a, Len(node.path), <<arg(a, Len(node.path) - 1)>>,
                     name, declared)
    ELSE None

\* the outcome r of a child's code, or else of the code that follows it
orElse(r, childs, i, a, name, declared) ==
  IF r.kind # "none" THEN r ELSE runChilds(childs, i, a, name, declared)

\* the code of the childs from the i-th on, up to the first return or throw
runChilds(childs, i, a, name, declared) ==
  IF i > Len(childs) THEN None
  ELSE orElse(toCode(childs[i], a, name, declared), childs, i + 1, a, name, declared)

\* node.js lines 194-200: what follows the code of the childs, whose outcome is r
afterChilds(r, node, a, name) ==
  IF r.kind # "none" THEN r
  ELSE IF ~node.fallThrough \/ (hasParam(node) /\ anyType(nodeParam(node)))
    THEN exceptions(node, a, name)
    ELSE None

\* Node.prototype._innerCode, executed
_innerCode(node, a, name, declared) ==
  IF node.signature # NoSignature /\ Len(a) = Len(node.path)
    THEN callSignature(node.signature, a, <<>>, declared)
    ELSE afterChilds(runChilds(node.childs, 1, a, name, declared), node, a, name)

RECURSIVE declaresVarArgs(_)
\* whether the generated code holds a `var varArgs` (node.js lines 44, 74)
declaresVarArgs(node) ==
  \/ hasParam(node) /\ nodeParam(node).varArgs
  \/ \E i \in 1..Len(node.childs) : declaresVarArgs(node.childs[i])

(***************************************************************************)
(* _typed and the signatures of typed (src/src/typed.js).  A dispatcher is *)
(* [error, name, node, declared, signatures, compiledWith]: error = "" when*)
(* the call returned a function, else what it threw; signatures is the     *)
(* attached map; compiledWith records the typed object (types, conversions *)
(* and ignore list) the compilation read.                                  *)
(***************************************************************************)
Dispatcher(error, name, node, map, typed) ==
  [error |-> error, name |-> name, node |-> node,
   declared |-> declaresVarArgs(node), signatures |-> map, compiledWith |-> typed]

NoNode == Node(<<>>, NoSignature, <<>>, FALSE, "")

Failed(error, typed) == Dispatcher(error, "", NoNode, <<>>, typed)

\* no dispatcher yet
NoFn == Failed("none", Typed(<<>>, <<>>, <<>>))

\* lines 405-421: the function made of the tree, or what making it threw
compiled(name, _signatures, node, codeError, typed) ==
  IF node.error # "" THEN Failed(node.error, typed)
  ELSE IF codeError # "" THEN Failed(codeError, typed)
  ELSE Dispatcher("", name, node, mapSignatures(_signatures), typed)

\* lines 395-403: the tree of the parsed signatures
treeOf(_signatures, typed, impl) ==
  parseTree(_signatures, <<>>, filterAnyTypeSignatures(_signatures), typed, impl)

withCode(name, _signatures, node, typed) ==
  compiled(name, _signatures, node, toCodeError(node, typed), typed)

parsedTyped(name, parsed, typed, impl) ==
  IF parsed.error # "" THEN Failed(parsed.error, typed)
  ELSE IF Len(parsed.value) = 0 THEN Failed("No signatures provided", typed)
  ELSE withCode(name, parsed.value, treeOf(parsed.value, typed, impl), typed)

_typed(name, signatures, typed, impl) ==
  parsedTyped(name, parseSignatures(signatures, typed, impl), typed, impl)

\* D(a): the call of a dispatcher typed returned
Call(d, a) == toCode(d.node, a, d.name, d.declared)

\* a function typed did not return: it has a name and no signatures property
Plain(name) == Dispatcher("plain function", name, NoNode, <<>>, Typed(<<>>, <<>>, <<>>))

\* typeof fn.signatures === 'object'
isTyped(f) == f.error = ""

RECURSIVE getName(_, _, _)
\* lines 16-44: the name of the typed functions of fns[i..], name being that
\* of those before
getName(fns, i, name) ==
  IF i > Len(fns) THEN [error |-> "", value |-> name, data |-> <<>>]
  ELSE IF isTyped(fns[i]) /\ fns[i].name # ""
    THEN IF name = "" THEN getName(fns, i + 1, fns[i].name)
         ELSE IF name # fns[i].name
           THEN [error |-> "Function names do not match", value |-> "",
                 data |-> [actual |-> fns[i].name, expected |-> name]]
         ELSE getName(fns, i + 1, name)
  ELSE getName(fns, i + 1, name)

RECURSIVE mergeSignaturesOverriding(_, _, _)
\* a merge in which the first implementation of a key wins, silently
mergeSignaturesOverriding(fns, i, signatures) ==
  IF i > Len(fns) THEN [error |-> "", value |-> signatures, data |-> <<>>]
  ELSE IF ~isTyped(fns[i])
    THEN [error |-> "no typed-function", value |-> <<>>, data |-> [index |-> i - 1]]
  ELSE mergeSignaturesOverriding(fns, i + 1,
         signatures \o SelectSeq(fns[i].signatures, LAMBDA e :
                         \A j \in 1..Len(signatures) : signatures[j][1] # e[1]))

RECURSIVE mergeSignatures(_, _, _)
\* lines 572-601: merge the maps of the typed functions fns[i..]; data is
\* err.data, and the index of the code is i - 1
mergeSignatures(fns, i, signatures) ==
  IF i > Len(fns) THEN [error |-> "", value |-> signatures, data |-> <<>>]
  ELSE IF ~isTyped(fns[i])
    THEN [error |-> "no typed-function", value |-> <<>>, data |-> [index |-> i - 1]]
  ELSE LET own == fns[i].signatures
           clash == {k \in 1..Len(own) : \E j \in 1..Len(signatures) :
                      signatures[j][1] = own[k][1] /\ signatures[j][2] # own[k][2]}
           fresh == SelectSeq(own, LAMBDA e :
                      \A j \in 1..Len(signatures) : signatures[j][1] # e[1])
       IN  IF clash # {}
             THEN [error |-> "defined twice", value |-> <<>>,
                   data |-> [signature |-> own[CHOOSE k \in clash :
                                                 \A l \in clash : k <= l][1]]]
           ELSE mergeSignatures(fns, i + 1, signatures \o fresh)

\* typed(fn1, fn2, ...): the '...Function' signature of typed
typedFunctions(fns, typed, impl) ==
  LET name == getName(fns, 1, "")
      merged == mergeSignatures(fns, 1, <<>>)
  IN  IF name.error # "" THEN Failed(name.error, typed)
      ELSE IF merged.error # "" THEN Failed(merged.error, typed)
      ELSE _typed(name.value, merged.value, typed, impl)

\* err.data of what typed(fn1, fn2, ...) threw
typedFunctionsData(fns) ==
  LET name == getName(fns, 1, "")
  IN  IF name.error # "" THEN name.data ELSE mergeSignatures(fns, 1, <<>>).data

\* typed.find(fn, signature) for a string: the implementation, or "throw"
find(d, signature) ==
  LET pieces == splitTokens(signature, ",")
      str == joinTokens([i \in 1..Len(pieces) |-> trim(pieces[i])], <<",">>)
  IN  IF \E k \in 1..Len(d.signatures) : d.signatures[k][1] = str
        THEN d.signatures[CHOOSE k \in 1..Len(d.signatures) :
                            d.signatures[k][1] = str][2]
        ELSE "throw"

(***************************************************************************)
(* The system: one instance made by create(), and its caller.  The engine's*)
(* sort is one of SortImpls, the same for every compilation of a run.      *)
(***************************************************************************)
DefaultTypes ==
  <<"number", "string", "boolean", "Function", "Array", "Date", "RegExp",
    "Object", "null", "undefined">>

SortImpls == {"insertion", "timsort"}

\* the typed object as it is now
Now == Typed(types, conversions, ignore)

\* typed(signatures): the 'Object' signature of typed; getName gives ''
compile(signatures, typed, impl) == _typed("", signatures, typed, impl)

\* the engines under which typed(raw) returned fn
engines == {impl \in SortImpls : fn = _typed(fn.name, raw, fn.compiledWith, impl)}

\* createError has not been called directly
NoCall == [name |-> "", argCount |-> 0, index |-> 0, actual |-> Undefined, expected |-> <<>>,
           error |-> NoError, actualType |-> ""]

\* Param.compare has not been called directly
NoCompare == [a |-> Param(<<"any">>), b |-> Param(<<"any">>), c |-> Param(<<"any">>),
              ab |-> 0, ba |-> 0, bc |-> 0, ac |-> 0, called |-> FALSE]

\* typed has not been given functions
NoMerge == [of |-> <<>>, fn |-> NoFn, data |-> <<>>]

Init ==
  /\ types = DefaultTypes
  /\ conversions = <<>>
  /\ ignore = <<>>
  /\ raw = <<>>
  /\ fn = NoFn
  /\ raw2 = <<>>
  /\ fn2 = NoFn
  /\ args = <<>>
  /\ out = None
  /\ out2 = None
  /\ find1 = <<>>
  /\ found = ""
  /\ made = NoCall
  /\ fn3 = NoMerge
  /\ compared = NoCompare

\* typed.addConversion(conversion)
addConversion(conversion) ==
  /\ Len(conversions) < MaxConv
  /\ conversions' = Append(conversions, conversion)
  /\ UNCHANGED <<types, ignore, raw, fn, raw2, fn2, args, out, out2, find1, found, made, fn3, compared>>

\* fn = typed(signatures)
typedObject(signatures) ==
  /\ \E impl \in SortImpls : fn' = compile(signatures, Now, impl)
  /\ raw' = signatures
  /\ UNCHANGED <<types, conversions, ignore, raw2, fn2, args, out, out2, find1, found, made, fn3, compared>>

\* fn2 = typed(signatures)
typedSecond(signatures) ==
  /\ \E impl \in engines : fn2' = compile(signatures, Now, impl)
  /\ raw2' = signatures
  /\ UNCHANGED <<types, conversions, ignore, raw, fn, args, out, out2, find1, found, made, fn3, compared>>

\* fn2 = typed(fn, ..., fn), with fn given k times
typedSelf(k) ==
  /\ fn.error = ""
  /\ \E impl \in engines :
       fn2' = typedFunctions([i \in 1..k |-> fn], Now, impl)
  /\ raw2' = <<>>
  /\ UNCHANGED <<types, conversions, ignore, raw, fn, args, out, out2, find1, found, made, fn3, compared>>

\* fn(a...), and fn2(a...) when fn2 is a dispatcher
call(a) ==
  /\ fn.error = ""
  /\ args' = <<a>>
  /\ out' = Call(fn, a)
  /\ out2' = IF fn2.error = "" THEN Call(fn2, a) ELSE None
  /\ UNCHANGED <<types, conversions, ignore, raw, fn, raw2, fn2, find1, found, made, fn3, compared>>

\* createError(name, argCount, index, actual, expected), called directly
createErrorCall(name, argCount, index, actual, expected) ==
  /\ made' = [name |-> name, argCount |-> argCount, index |-> index,
              actual |-> actual, expected |-> expected,
              error |-> createError(name, argCount, index, actual, expected),
              actualType |-> getTypeOf(actual, types)]
  /\ UNCHANGED <<types, conversions, ignore, raw, fn, raw2, fn2, args, out, out2,
                 find1, found, fn3, compared>>

\* fn = typed(name, signatures)
typedNamed(name, signatures) ==
  /\ \E impl \in SortImpls : fn' = _typed(name, signatures, Now, impl)
  /\ raw' = signatures
  /\ UNCHANGED <<types, conversions, ignore, raw2, fn2, args, out, out2, find1, found, made, fn3, compared>>

\* fn2 = typed(name, signatures)
typedNamedSecond(name, signatures) ==
  /\ \E impl \in engines : fn2' = _typed(name, signatures, Now, impl)
  /\ raw2' = signatures
  /\ UNCHANGED <<types, conversions, ignore, raw, fn, args, out, out2, find1, found, made, fn3, compared>>

\* the arguments of typed(f1, ..., fn): fn, fn2, or a function h typed did
\* not return
functionsOf(list) ==
  [i \in 1..Len(list) |-> IF list[i] = "fn" THEN fn
                          ELSE IF list[i] = "fn2" THEN fn2 ELSE Plain(list[i])]

\* typed(f1, ..., fn)
typedMerge(list) ==
  /\ \E impl \in engines :
       fn3' = [of |-> list,
               fn |-> typedFunctions(functionsOf(list), Now, impl),
               data |-> typedFunctionsData(functionsOf(list))]
  /\ UNCHANGED <<types, conversions, ignore, raw, fn, raw2, fn2, args, out, out2, find1, found, made,
                 compared>>

\* typed.addType(type)
addType(name) ==
  /\ Len(types) < Len(DefaultTypes) + MaxTypes
  /\ types' = Append(types, name)
  /\ UNCHANGED <<conversions, ignore, raw, fn, raw2, fn2, args, out, out2, find1, found, made, fn3, compared>>

\* typed.ignore.push(name)
addIgnore(name) ==
  /\ Len(ignore) < MaxIgnore
  /\ ignore' = Append(ignore, name)
  /\ UNCHANGED <<types, conversions, raw, fn, raw2, fn2, args, out, out2, find1, found, made, fn3, compared>>

\* Param.compare(a, b, typed), Param.compare(b, a, typed), Param.compare(b, c,
\* typed) and Param.compare(a, c, typed), called directly
compareCall(a, b, c) ==
  /\ compared' = [a |-> a, b |-> b, c |-> c,
                  ab |-> ParamCompare(a, b, Now), ba |-> ParamCompare(b, a, Now),
                  bc |-> ParamCompare(b, c, Now), ac |-> ParamCompare(a, c, Now),
                  called |-> TRUE]
  /\ UNCHANGED <<types, conversions, ignore, raw, fn, raw2, fn2, args, out, out2,
                 find1, found, made, fn3>>

\* typed.find(fn, text)
typedFind(text) ==
  /\ fn.error = ""
  /\ find1' = text
  /\ found' = find(fn, text)
  /\ UNCHANGED <<types, conversions, ignore, raw, fn, raw2, fn2, args, out, out2, made, fn3, compared>>

(***************************************************************************)
(* The caller's inputs: conversions, values, signature texts and the       *)
(* mappings made of them.                                                  *)
(***************************************************************************)
b2n == [from |-> "boolean", to |-> "number", convert |-> "b2n"]
b2s == [from |-> "boolean", to |-> "string", convert |-> "b2s"]

Value1 == Value("1")
ValueX == Value("x")
ValueTrue == Value("true")
ValueArray == Value("[]")

RECURSIVE SeqsUpTo(_, _)
SeqsUpTo(S, n) ==
  IF n = 0 THEN {<<>>}
  ELSE LET shorter == SeqsUpTo(S, n - 1)
       IN  shorter \cup {Append(q, x) : q \in {r \in shorter : Len(r) = n - 1}, x \in S}

\* "p, q"
Comma(p, q) == p \o <<",", " ">> \o q

\* "p|q"
Union(p, q) == p \o <<"|">> \o q

\* "...p"
VarArgs(p) == <<"...">> \o p

\* the mappings {t: f} and {t1: f, t2: g} over the texts of a set
MappingsOf(texts) ==
  {<<<<t, "f">>>> : t \in texts} \cup
  {<<<<t[1], "f">>, <<t[2], "g">>>> : t \in {u \in texts \X texts : u[1] # u[2]}}

\* The caller registers its conversions, each once, composes fn, may compose
\* fn2 or look a signature up, and calls: each at most once and in this order.
register(convs) ==
  \E c \in convs : fn = NoFn /\ ~contains(conversions, c) /\ addConversion(c)

composeFirst(mappings) == \E m \in mappings : fn = NoFn /\ typedObject(m)

composeSecond(mappings) ==
  \E m \in mappings : fn # NoFn /\ fn2 = NoFn /\ args = <<>> /\ typedSecond(m)

composeSelf(counts) ==
  \E k \in counts : fn2 = NoFn /\ args = <<>> /\ find1 = <<>> /\ typedSelf(k)

callWith(values) == \E a \in SeqsUpTo(values, MaxArgs) : args = <<>> /\ call(a)

lookup(texts) ==
  \E t \in texts : fn2 = NoFn /\ args = <<>> /\ find1 = <<>> /\ typedFind(t)

(***************************************************************************)
(* What the claims speak of.                                               *)
(***************************************************************************)
\* the signature the i-th property of a mapping declares
declared(mapping, i) == Signature(signatureParams(mapping[i][1]), mapping[i][2])

concrete(s) == ~sigAnyType(s)

\* the value is one the param takes as it is: `any`, or one of its types
admits(param, x) == anyType(param) \/ accepts(param, x)

\* as many arguments as params, each passing its param's test
matchesDirectly(s, a) ==
  /\ Len(a) = Len(s.params)
  /\ \A i \in 1..Len(a) : accepts(s.params[i], a[i])

\* the arguments are ones the signature takes without any conversion
takes(s, a) ==
  /\ IF sigVarArgs(s) THEN Len(a) >= Len(s.params) ELSE Len(a) = Len(s.params)
  /\ \A i \in 1..Len(a) : admits(paramOrLast(s.params, i)[1], a[i])

\* a registered conversion turns the value into one of the param's types
convertible(x, param, typed) ==
  \E k \in 1..Len(typed.conversions) :
    /\ contains(param.types, typed.conversions[k].to)
    /\ typeTest(typed.conversions[k].from, x)

\* the implementation's parameters when s is invoked with the arguments a
passed(s, a) ==
  [i \in 1..Len(s.params) |->
     IF s.params[i].varArgs THEN Rest(SubSeq(a, i, Len(a))) ELSE One(a[i])]

Returned(s, a) == Outcome("return", s.fn, passed(s, a), NoError)

\* fn is a dispatcher and has been called
called == fn.error = "" /\ args # <<>>

(***************************************************************************)
(* Arity resolution: mappings of signatures of concrete types.             *)
(***************************************************************************)
ArityTexts ==
  {<<>>, <<"number">>, <<"string">>, <<"Array">>, <<"Object">>,
   Comma(<<"number">>, <<"string">>), Comma(<<"number">>, <<"number">>),
   Comma(<<"Array">>, <<"number">>), Comma(<<"Object">>, <<"string">>)}

ArityValues == {Value1, ValueX, ValueArray}

NextArity ==
  \/ register({b2n})
  \/ composeFirst(MappingsOf(ArityTexts))
  \/ callWith(ArityValues)

SpecArity == Init /\ [][NextArity]_vars

\* C1: a call whose arguments pass the tests of a compiled signature of
\* concrete types, are as many as its params, and which no other signature
\* of the mapping takes, invokes that signature's implementation with those
\* arguments.
ArityResolution ==
  called =>
    \A i \in 1..Len(raw) :
      (/\ concrete(declared(raw, i))
       /\ matchesDirectly(declared(raw, i), args[1])
       /\ \A j \in 1..Len(raw) : j # i => ~takes(declared(raw, j), args[1]))
        => out = Returned(declared(raw, i), args[1])

(***************************************************************************)
(* Variadic signatures.                                                    *)
(***************************************************************************)
VarArgsTexts ==
  {<<"number">>, VarArgs(<<"number">>), VarArgs(<<"any">>),
   Comma(<<"string">>, VarArgs(<<"number">>)),
   VarArgs(Union(<<"number">>, <<"string">>))}

VarArgsValues == {Value1, ValueX, ValueTrue}

NextVarArgs ==
  \/ register({b2n})
  \/ composeFirst(MappingsOf(VarArgsTexts))
  \/ callWith(VarArgsValues)

SpecVarArgs == Init /\ [][NextVarArgs]_vars

\* fn was compiled from one signature, whose last param is variadic, and the
\* arguments before the variadic ones are what the signature declares
variadicCall ==
  /\ called
  /\ Len(raw) = 1
  /\ sigVarArgs(declared(raw, 1))
  /\ Len(args[1]) >= Len(declared(raw, 1).params) - 1
  /\ \A i \in 1..(Len(declared(raw, 1).params) - 1) :
       admits(declared(raw, 1).params[i], args[1][i])

\* the 1-based positions of the variadic arguments the param does not take
misfits(s, a) == {i \in Len(s.params)..Len(a) : ~admits(last(s.params), a[i])}

\* exactly one variadic argument is not of the type, nor convertible to it:
\* the call throws 'Unexpected type of argument' with that argument's index
oneMisfit(s, a) ==
  \A i \in misfits(s, a) :
    (misfits(s, a) = {i} /\ ~convertible(a[i], last(s.params), fn.compiledWith))
      => /\ out.kind = "throw"
         /\ out.error.message = "Unexpected type of argument"
         /\ out.error.index = i - 1
         /\ out.error.actual = a[i]

FixedAndVariadic ==
  (/\ called
   /\ raw = <<<<<<"number">>, "f">>, <<VarArgs(<<"number">>), "g">>>>
   /\ Len(args[1]) >= 2
   /\ \A i \in 1..Len(args[1]) : typeTest("number", args[1][i]))
    => out = Outcome("return", "g", <<Rest(args[1])>>, NoError)

(***************************************************************************)
(* Union types: {"A|B": f} against {"A": f, "B": f}.  A case is the params *)
(* before the union, its two type names, the params after it, and whether  *)
(* the union is variadic.                                                  *)
(***************************************************************************)
UnionCase(before, a, b, after, rest) ==
  [before |-> before, a |-> a, b |-> b, after |-> after, rest |-> rest]

UnionCases ==
  {UnionCase(<<>>, "number", "string", <<>>, FALSE),
   UnionCase(<<>>, "string", "number", <<>>, FALSE),
   UnionCase(<<>>, "number", "number", <<>>, FALSE),
   UnionCase(<<>>, "boolean", "number", <<>>, FALSE),
   UnionCase(<<>>, "number", "boolean", <<>>, FALSE),
   UnionCase(<<>>, "Array", "Object", <<>>, FALSE),
   UnionCase(<<>>, "Object", "Array", <<>>, FALSE),
   UnionCase(<<>>, "number", "any", <<>>, FALSE),
   UnionCase(<<>>, "number", "string", <<<<"number">>>>, FALSE),
   UnionCase(<<<<"string">>>>, "number", "boolean", <<>>, FALSE),
   UnionCase(<<<<"string">>>>, "number", "string", <<>>, TRUE),
   UnionCase(<<>>, "number", "string", <<>>, TRUE)}

\* the text of a signature whose params are the texts given: "p, q, r"
textOf(params) == joinTokens(params, <<",", " ">>)

ellipsis(c) == IF c.rest THEN <<"...">> ELSE <<>>

\* {"A|B": f}
unionMapping(c) ==
  <<<<textOf(c.before \o <<ellipsis(c) \o Union(<<c.a>>, <<c.b>>)>> \o c.after), "f">>>>

\* {"A": f, "B": f}: one property when the two keys are the same text
splitMapping(c) ==
  IF c.a = c.b
    THEN <<<<textOf(c.before \o <<ellipsis(c) \o <<c.a>>>> \o c.after), "f">>>>
    ELSE <<<<textOf(c.before \o <<ellipsis(c) \o <<c.a>>>> \o c.after), "f">>,
           <<textOf(c.before \o <<ellipsis(c) \o <<c.b>>>> \o c.after), "f">>>>

splitsOf(mapping) == {splitMapping(c) : c \in {d \in UnionCases : unionMapping(d) = mapping}}

UnionValues == {Value1, ValueX, ValueTrue, ValueArray}

NextUnion ==
  \/ register({b2n, b2s})
  \/ composeFirst({unionMapping(c) : c \in UnionCases})
  \/ composeSecond(splitsOf(raw))
  \/ callWith(UnionValues)

SpecUnion == Init /\ [][NextUnion]_vars

\* fn2 was composed of the split of the mapping of fn
split == fn2 # NoFn /\ raw2 \in splitsOf(raw)

\* C3: typed of {"A|B": f} and typed of {"A": f, "B": f} end alike, and the
\* two dispatchers give every call the same outcome: the same implementation
\* with the same arguments, or the same error.
UnionSplitting ==
  split => /\ fn.error = fn2.error
           /\ args # <<>> => out = out2

(***************************************************************************)
(* Conversions.                                                            *)
(***************************************************************************)
ConvTexts ==
  {<<"number">>, <<"string">>, <<"boolean">>,
   Comma(<<"number">>, <<"string">>), Comma(<<"string">>, <<"string">>),
   Comma(<<"Array">>, <<"number">>), Comma(<<"Object">>, <<"boolean">>),
   Comma(<<"Object">>, <<"string">>)}

ConvValues == {Value1, ValueTrue, ValueArray}

NextConv ==
  \/ register({b2n, b2s})
  \/ composeFirst(MappingsOf(ConvTexts))
  \/ callWith(ConvValues)

SpecConv == Init /\ [][NextConv]_vars

\* the signature takes the arguments once conversions the dispatcher was
\* compiled with are applied, and not without them
through(s, a) ==
  /\ IF sigVarArgs(s) THEN Len(a) >= Len(s.params) ELSE Len(a) = Len(s.params)
  /\ \A i \in 1..Len(a) :
       \/ admits(paramOrLast(s.params, i)[1], a[i])
       \/ convertible(a[i], paramOrLast(s.params, i)[1], fn.compiledWith)
  /\ ~takes(s, a)

\* the first registered conversion that turns x into one of the param's types
firstApplicable(x, param, typed) ==
  typed.conversions[CHOOSE k \in 1..Len(typed.conversions) :
    /\ contains(param.types, typed.conversions[k].to)
    /\ typeTest(typed.conversions[k].from, x)
    /\ \A h \in 1..(k - 1) :
         ~(contains(param.types, typed.conversions[h].to) /\
           typeTest(typed.conversions[h].from, x))]

\* the conversions a signature of fixed arity needs to take the arguments
uses(s, a) ==
  {firstApplicable(a[i], s.params[i], fn.compiledWith) :
     i \in {h \in 1..Len(a) : ~admits(s.params[h], a[h])}}

\* the implementation's parameters when s takes the arguments through them
passedThrough(s, a) ==
  [i \in 1..Len(s.params) |->
     IF admits(s.params[i], a[i]) THEN One(a[i])
     ELSE One(convert(firstApplicable(a[i], s.params[i], fn.compiledWith), a[i]))]

\* an argument reached the implementation converted
converted(o) ==
  \E i \in 1..Len(o.args) : \E k \in 1..Len(o.args[i].items) :
    o.args[i].items[k].by # <<>>

\* C4: when the arguments are taken by one signature of the mapping as they
\* are and by another only through conversions, the first one's
\* implementation is invoked with the arguments unconverted; and no argument
\* is converted when some signature takes the arguments as they are.
ConversionPreference ==
  called =>
    /\ \A i \in 1..Len(raw) :
         (/\ takes(declared(raw, i), args[1])
          /\ \A j \in 1..Len(raw) : j # i => ~takes(declared(raw, j), args[1])
          /\ \E j \in 1..Len(raw) : through(declared(raw, j), args[1]))
           => out = Returned(declared(raw, i), args[1])
    /\ (out.kind = "return" /\ converted(out))
         => \A i \in 1..Len(raw) : ~takes(declared(raw, i), args[1])

\* the position of a conversion in the list the dispatcher was compiled with
position(c) == indexOf(fn.compiledWith.conversions, c)

\* C5: of two signatures of fixed arity that take the arguments through one
\* conversion each, the two conversions being from the same type, the one
\* whose conversion is earlier in the list is invoked, with the arguments so
\* converted; whichever of the two the mapping names first.
ConversionOrder ==
  (called /\ Len(raw) = 2) =>
    \A i \in 1..2 :
      (/\ ~sigVarArgs(declared(raw, i)) /\ ~sigVarArgs(declared(raw, 3 - i))
       /\ through(declared(raw, i), args[1])
       /\ through(declared(raw, 3 - i), args[1])
       /\ \E c1 \in uses(declared(raw, i), args[1]) :
            \E c2 \in uses(declared(raw, 3 - i), args[1]) :
              /\ uses(declared(raw, i), args[1]) = {c1}
              /\ uses(declared(raw, 3 - i), args[1]) = {c2}
              /\ c1.from = c2.from
              /\ position(c1) < position(c2))
        => out = Outcome("return", declared(raw, i).fn,
                         passedThrough(declared(raw, i), args[1]), NoError)

(***************************************************************************)
(* Signatures with `any`.                                                  *)
(***************************************************************************)
AnyTexts ==
  {Comma(<<"any">>, <<"number">>), Comma(<<"string">>, <<"any">>),
   Comma(<<"string">>, <<"number">>), Comma(<<"number">>, <<"any">>),
   Comma(<<"any">>, <<"any">>), Comma(<<"Array">>, <<"number">>),
   Comma(<<"Object">>, <<"any">>), VarArgs(<<"any">>), <<"any">>, <<"number">>,
   Comma(Comma(<<"any">>, <<"number">>), <<"any">>),
   Comma(Comma(<<"any">>, <<"any">>), <<"number">>)}

AnyValues == {Value1, ValueX, ValueArray}

NextAny ==
  \/ register({b2n})
  \/ composeFirst(MappingsOf(AnyTexts))
  \/ callWith(AnyValues)

SpecAny == Init /\ [][NextAny]_vars

RECURSIVE nodesOf(_)
\* the nodes of the tree below and including the node
nodesOf(node) ==
  {node} \cup UNION {nodesOf(node.childs[i]) : i \in 1..Len(node.childs)}

\* the signatures fn was compiled of, expanded, sorted and pruned
compiledSignatures(impl) == parseSignatures(raw, fn.compiledWith, impl).value

\* the ids of the signatures held by the nodes of the subtree
subtreeIds(node) ==
  {m.signature.id : m \in {n \in nodesOf(node) : n.signature # NoSignature}}

\* some `any` signature that can still match the node's path is not among
\* the signatures of the node's subtree
anyOutside(node, signatures) ==
  \E k \in 1..Len(signatures) :
    /\ sigAnyType(signatures[k])
    /\ paramsStartWith(signatures[k], node.path)
    /\ signatures[k].id \notin subtreeIds(node)

\* the signature takes the arguments, as they are or through conversions
matching(s, a) == takes(s, a) \/ through(s, a)

\* C6: a node falls through exactly when an `any` signature outside its
\* subtree can still match its path; and a call whose arguments an `any`
\* signature of the mapping takes is given to an implementation whose
\* signature matches them, no error being thrown.
AnyFallThrough ==
  fn.error = "" =>
    /\ \A impl \in engines : \A n \in nodesOf(fn.node) :
         n.fallThrough <=> anyOutside(n, compiledSignatures(impl))
    /\ (args # <<>> /\ \E i \in 1..Len(raw) :
           sigAnyType(declared(raw, i)) /\ takes(declared(raw, i), args[1]))
         => /\ out.kind = "return"
            /\ \E j \in 1..Len(raw) :
                 out.fn = raw[j][2] /\ matching(declared(raw, j), args[1])

\* the first position at which the params of two signatures differ, or 0
firstDifference(s, t) ==
  IF \E p \in 1..Len(s.params) : s.params[p] # t.params[p]
    THEN CHOOSE p \in 1..Len(s.params) :
           /\ s.params[p] # t.params[p]
           /\ \A q \in 1..(p - 1) : s.params[q] = t.params[q]
    ELSE 0

\* s is concrete and t is `any` where the two first differ
concreteFirst(s, t) ==
  /\ Len(s.params) = Len(t.params)
  /\ firstDifference(s, t) # 0
  /\ ~anyType(s.params[firstDifference(s, t)])
  /\ anyType(t.params[firstDifference(s, t)])

E5 == {<<<<Comma(<<"any">>, <<"number">>), "f">>, <<Comma(<<"string">>, <<"any">>), "g">>>>,
       <<<<Comma(<<"string">>, <<"any">>), "f">>, <<Comma(<<"any">>, <<"number">>), "g">>>>}

ComposeTexts ==
  {<<"number">>, <<"boolean">>, <<"any">>, VarArgs(<<"number">>),
   Comma(<<"number">>, <<"string">>), Union(<<"number">>, <<"string">>)}

FindTexts ==
  {<<"number">>, <<"boolean">>, <<"string">>, <<"any">>, VarArgs(<<"number">>),
   Comma(<<"number">>, <<"string">>), <<"number", ",", "string">>,
   <<" ", "number", " ">>, Union(<<"number">>, <<"string">>)}

ComposeValues == {Value1, ValueX, ValueTrue}

NextCompose ==
  \/ register({b2n})
  \/ composeFirst(MappingsOf(ComposeTexts))
  \/ composeSelf({1, 2})
  \/ callWith(ComposeValues)
  \/ lookup(FindTexts)

SpecCompose == Init /\ [][NextCompose]_vars

\* C7: typed(fn) and typed(fn, fn) return a dispatcher, and it gives every
\* call the outcome fn gives it.
ComposeIdempotent ==
  (fn.error = "" /\ fn2 # NoFn) =>
     /\ fn2.error = ""
     /\ args # <<>> => out2 = out

\* no param of the signature holds a conversion
conversionFree(s) ==
  \A i \in 1..Len(s.params) : \A k \in 1..Len(s.params[i].conversions) :
    s.params[i].conversions[k] = Hole

\* the key of a signature in the attached map: its params joined by ","
keyOf(s) ==
  joinTokens([i \in 1..Len(s.params) |-> paramToString(s.params[i])], <<",">>)

\* the text given to find, each param trimmed
trimmed(text) ==
  joinTokens([i \in 1..Len(splitTokens(text, ",")) |->
                trim(splitTokens(text, ",")[i])], <<",">>)

\* C8: the attached map holds the signatures of fn without conversion, each
\* under its key with its implementation, and nothing else; find returns the
\* implementation under the key given, trimmed, and throws when there is none.
FindExactness ==
  fn.error = "" =>
    \A impl \in engines :
      LET free == SelectSeq(compiledSignatures(impl), conversionFree)
      IN  /\ {fn.signatures[k] : k \in 1..Len(fn.signatures)} =
               {<<keyOf(free[k]), free[k].fn>> : k \in 1..Len(free)}
          /\ find1 # <<>> =>
               \/ \E k \in 1..Len(free) :
                    keyOf(free[k]) = trimmed(find1) /\ found = free[k].fn
               \/ /\ found = "throw"
                  /\ \A k \in 1..Len(free) : keyOf(free[k]) # trimmed(find1)

(***************************************************************************)
(* Dispatch errors.                                                        *)
(***************************************************************************)
ErrorTexts ==
  {<<"number">>, <<"string">>, <<"boolean">>, VarArgs(<<"number">>),
   Comma(<<"number">>, <<"string">>), Comma(<<"string">>, <<"number">>),
   Comma(<<"any">>, <<"any">>), Comma(<<"Array">>, <<"number">>),
   Comma(<<"Object">>, <<"string">>)}

ErrorValues == {Value1, ValueX, ValueTrue}

NextErrors ==
  \/ register({b2n})
  \/ composeFirst(MappingsOf(ErrorTexts))
  \/ callWith(ErrorValues)

SpecErrors == Init /\ [][NextErrors]_vars

\* the child's code is entered for the arguments: the guard of its param
\* holds of the argument at the child's depth
enters(child, a) ==
  LET d == Len(child.path) - 1
  IN  IF anyType(nodeParam(child))
        THEN ~nodeParam(child).varArgs \/ Len(a) > d
        ELSE accepts(nodeParam(child), arg(a, d))

RECURSIVE mismatchNode(_, _)
\* <<n>> for the node n the call reaches, by entering at each depth the first
\* child that takes the argument, and none of whose childs takes the next
\* argument; <<>> when the call ends in another way
mismatchNode(node, a) ==
  IF node.signature # NoSignature /\ Len(a) = Len(node.path) THEN <<>>
  ELSE IF node.childs = <<>> THEN <<>>
  ELSE LET hit == {i \in 1..Len(node.childs) : enters(node.childs[i], a)}
       IN  IF hit = {} THEN <<node>>
           ELSE LET c == node.childs[CHOOSE i \in hit : \A j \in hit : i <= j]
                IN  IF nodeParam(c).varArgs THEN <<>> ELSE mismatchNode(c, a)

\* the types the childs of the node take without conversion, in the order
\* of the childs, each once
directTypes(node) ==
  LET of(c) == [k \in 1..Len(exactTypes(nodeParam(c))) |->
                  exactTypes(nodeParam(c))[k].type]
      RECURSIVE all(_)
      all(i) == IF i > Len(node.childs) THEN <<>>
                ELSE of(node.childs[i]) \o all(i + 1)
  IN  dedupe(all(1), <<>>)

\* the call threw the mismatch of the node
mismatchOf(n, a) ==
  /\ out.kind = "throw"
  /\ out.error.index = Len(n.path)
  /\ out.error.actual = arg(a, Len(n.path))
  /\ out.error.expected = directTypes(n)

\* C11 as claimed: whenever no child of the node the call reaches takes the
\* argument at the node's depth, the call throws an error with that depth as
\* index, that argument as actual, and the direct types of the childs as
\* expected.
MismatchContentAsClaimed ==
  called =>
    \A n \in {m \in nodesOf(fn.node) : mismatchNode(fn.node, args[1]) = <<m>>} :
      mismatchOf(n, args[1])

\* the node emits its terminal mismatch: it is not in fall-through mode, or
\* its own param is `any`
emitsMismatch(n) == ~n.fallThrough \/ (hasParam(n) /\ anyType(nodeParam(n)))

\* C11, amended: the error is thrown, with that content, when the node
\* reached is not in fall-through mode (or its own param is `any`); so
\* {"number": f, "string": g} called with true gives index 0, actual true,
\* expected [number, string], and {"number, string": f} called with (1) gives
\* index 1, actual undefined, expected [string].
MismatchContent ==
  called =>
    /\ \A n \in {m \in nodesOf(fn.node) : mismatchNode(fn.node, args[1]) = <<m>>} :
         emitsMismatch(n) => mismatchOf(n, args[1])
    /\ (/\ conversions = <<>>
        /\ raw = <<<<<<"number">>, "f">>, <<<<"string">>, "g">>>>
        /\ args[1] = <<ValueTrue>>)
         => /\ out.kind = "throw"
            /\ out.error.index = 0
            /\ out.error.actual = ValueTrue
            /\ out.error.expected = <<"number", "string">>
    /\ (/\ raw = <<<<Comma(<<"number">>, <<"string">>), "f">>>>
        /\ args[1] = <<Value1>>)
         => /\ out.kind = "throw"
            /\ out.error.index = 1
            /\ out.error.actual = Undefined
            /\ out.error.expected = <<"string">>

\* {"number": f, "string": g} was called with true and threw
MismatchContentWitness ==
  /\ called
  /\ conversions = <<>>
  /\ raw = <<<<<<"number">>, "f">>, <<<<"string">>, "g">>>>
  /\ args[1] = <<ValueTrue>>
  /\ mismatchNode(fn.node, args[1]) = <<fn.node>>
  /\ out.kind = "throw"
  /\ out.error.expected = <<"number", "string">>

(***************************************************************************)
(* createError, called with every combination of its arguments.            *)
(***************************************************************************)
ExpectedTexts ==
  {<<>>, <<"number">>, <<"any">>, <<"number", ",", "string">>,
   <<"number", ",", "any">>, <<"any", ",", "string">>,
   <<"number", ",", " ", "any">>}

NextCreateError ==
  \E name \in {"", "fn1"} : \E argCount \in 0..MaxArgs : \E index \in 0..MaxArgs :
    \E actual \in {Value1, ValueX, Undefined} : \E expected \in ExpectedTexts :
      createErrorCall(name, argCount, index, actual, expected)

SpecCreateError == Init /\ [][NextCreateError]_vars

\* the pieces of the expected text, as the error lists them
expectedList(text) == splitTokens(text, ",")

\* C12: an error of createError carries fn, index, actual and the expected
\* list, and its message is 'Too many arguments' iff no expected text was
\* given; 'Unexpected type of argument' iff one was given, the argument count
\* exceeds the index and `any` is not in the list; 'Too few arguments' in
\* every other case with an expected text.
ErrorClassification ==
  made # NoCall =>
    LET e == made.error
        given == made.expected # <<>>
        any == \E i \in 1..Len(expectedList(made.expected)) :
                 expectedList(made.expected)[i] = <<"any">>
        unexpected == given /\ made.argCount > made.index /\ ~any
    IN  /\ e.fn = made.name /\ e.index = made.index /\ e.actual = made.actual
        /\ Len(e.expected) = IF given THEN Len(expectedList(made.expected)) ELSE 0
        /\ \A i \in 1..Len(e.expected) :
             Len(expectedList(made.expected)[i]) = 1 =>
               e.expected[i] = expectedList(made.expected)[i][1]
        /\ e.message \in {"Too many arguments", "Unexpected type of argument",
                          "Too few arguments"}
        /\ e.message = "Too many arguments" <=> ~given
        /\ e.message = "Unexpected type of argument" <=> unexpected
        /\ e.message = "Too few arguments" <=> (given /\ ~unexpected)

\* two arguments, index 1, expected "number,any": too few arguments
ErrorClassificationWitness ==
  /\ made # NoCall
  /\ made.argCount = 2 /\ made.index = 1
  /\ made.expected = <<"number", ",", "any">>
  /\ made.error.message = "Too few arguments"
  /\ made.error.expected = <<"number", "any">>

(***************************************************************************)
(* De-duplication of the expanded signatures.  The texts hold keys that    *)
(* differ as properties and are one canonical key (" number", "number"),   *)
(* and a union of a type with itself.                                      *)
(***************************************************************************)
DedupTexts ==
  {<<"number">>, <<" ", "number">>, Union(<<"number">>, <<"number">>),
   <<"boolean">>, Union(<<"number">>, <<"boolean">>),
   Comma(<<"number">>, <<"string">>), <<"number", ",", "string">>,
   VarArgs(<<"number">>)}

DedupValues == {Value1, ValueTrue}

NextDedup ==
  \/ register({b2n})
  \/ composeFirst(MappingsOf(DedupTexts))
  \/ callWith(DedupValues)

SpecDedup == Init /\ [][NextDedup]_vars

RECURSIVE allExpanded(_, _, _)
\* the expanded signatures of the properties of the mapping from the i-th on
allExpanded(mapping, i, typed) ==
  IF i > Len(mapping) THEN <<>>
  ELSE expand(declared(mapping, i), typed) \o allExpanded(mapping, i + 1, typed)

\* what parseSignatures keeps of the mapping of fn, before it sorts
keptSignatures ==
  collectKeys(raw, 1, [error |-> "", value |-> <<>>], fn.compiledWith).value

\* two expanded signatures of one key, bound to different implementations,
\* compare equal
tie(E, typed) ==
  \E i \in 1..Len(E) : \E j \in 1..Len(E) :
    /\ i < j
    /\ sigToString(E[i]) = sigToString(E[j])
    /\ E[i].fn # E[j].fn
    /\ SignatureCompare(E[i], E[j], typed) = 0

\* C13: compilation fails with 'defined twice' exactly when two expanded
\* signatures of one key are bound to different implementations and compare
\* equal (two bound to the same implementation are kept as one, silently);
\* otherwise no signature of the same key and of another implementation is
\* smaller than the one kept for the key.
Deduplication ==
  fn # NoFn =>
    LET E == allExpanded(raw, 1, fn.compiledWith)
    IN  /\ fn.error = "defined twice" <=> tie(E, fn.compiledWith)
        /\ fn.error # "defined twice" =>
             \A k \in 1..Len(keptSignatures) : \A i \in 1..Len(E) :
               (/\ sigToString(E[i]) = keptSignatures[k].key
                /\ E[i].fn # keptSignatures[k].signature.fn)
                 => ~LT0(SignatureCompare(E[i], keptSignatures[k].signature,
                                          fn.compiledWith))

(***************************************************************************)
(* typed(f1, ..., fn) over two named dispatchers and a plain function.     *)
(***************************************************************************)
MergeTexts ==
  {<<"number">>, <<"string">>, Union(<<"number">>, <<"string">>),
   VarArgs(<<"number">>), Comma(<<"number">>, <<"string">>)}

MergeNames == {"", "a", "b"}

\* the texts of the first dispatcher
MergeFirstTexts == {<<"number">>, <<"string">>, Union(<<"number">>, <<"string">>)}

\* the argument lists: "h" is a plain function
MergeLists ==
  {<<x>> : x \in {"fn", "fn2", "h"}} \cup
  {<<x, y>> : x \in {"fn", "fn2", "h"}, y \in {"fn", "fn2", "h"}} \cup
  {<<"fn", "fn2", "h">>, <<"fn", "h", "fn2">>, <<"h", "fn", "fn2">>,
   <<"fn", "fn2", "fn">>}

composeNamed(names, mappings) ==
  \E name \in names : \E m \in mappings : fn = NoFn /\ typedNamed(name, m)

composeNamedSecond(names, mappings) ==
  \E name \in names : \E m \in mappings :
    fn.error = "" /\ fn2 = NoFn /\ fn3 = NoMerge /\ typedNamedSecond(name, m)

merge(lists) ==
  \E list \in lists : fn.error = "" /\ fn2.error = "" /\ fn3 = NoMerge /\ typedMerge(list)

NextMerge ==
  \/ register({b2n})
  \/ composeNamed({"", "a"}, MappingsOf(MergeFirstTexts))
  \/ composeNamedSecond(MergeNames, MappingsOf(MergeTexts))
  \/ merge(MergeLists)

SpecMerge == Init /\ [][NextMerge]_vars

\* every argument is a dispatcher typed returned
dispatchersOnly(F) == \A i \in 1..Len(F) : isTyped(F[i])

\* some key is in two of the attached maps with different implementations
differing(F) ==
  \E i \in 1..Len(F) : \E j \in 1..Len(F) :
    \E k \in 1..Len(F[i].signatures) : \E l \in 1..Len(F[j].signatures) :
      /\ F[i].signatures[k][1] = F[j].signatures[l][1]
      /\ F[i].signatures[k][2] # F[j].signatures[l][2]

\* the named dispatchers carry one name
namesAgree(F) ==
  \A i \in 1..Len(F) : \A j \in 1..Len(F) :
    (isTyped(F[i]) /\ isTyped(F[j]) /\ F[i].name # "" /\ F[j].name # "")
      => F[i].name = F[j].name

\* that name, '' when none is named
nameOf(F) ==
  IF \E i \in 1..Len(F) : isTyped(F[i]) /\ F[i].name # ""
    THEN F[CHOOSE i \in 1..Len(F) : isTyped(F[i]) /\ F[i].name # ""].name
    ELSE ""

RECURSIVE flatten(_)
flatten(F) == IF F = <<>> THEN <<>> ELSE F[1].signatures \o flatten(Tail(F))

RECURSIVE firstOfEachKey(_, _)
\* the entries of a list of <<key, implementation>> whose key is in no
\* entry before them
firstOfEachKey(entries, i) ==
  IF i > Len(entries) THEN <<>>
  ELSE IF \E j \in 1..(i - 1) : entries[j][1] = entries[i][1]
    THEN firstOfEachKey(entries, i + 1)
  ELSE <<entries[i]>> \o firstOfEachKey(entries, i + 1)

\* the union of the attached maps
unionOfMaps(F) == firstOfEachKey(flatten(F), 1)

\* what the claim says of typed(F), which gave fn3
mergesAsClaimed(F) ==
  /\ (dispatchersOnly(F) /\ ~differing(F)) =>
       \E impl \in SortImpls :
         fn3.fn = _typed(nameOf(F), unionOfMaps(F), fn3.fn.compiledWith, impl)
  /\ (dispatchersOnly(F) /\ differing(F)) => fn3.fn.error = "defined twice"
  /\ ~dispatchersOnly(F) =>
       /\ fn3.fn.error \in {"no typed-function", "defined twice"}
       /\ ~differing(F) => fn3.fn.error = "no typed-function"
  /\ fn3.fn.error = "no typed-function" =>
       \E i \in 1..Len(F) :
         /\ fn3.data = [index |-> i - 1]
         /\ ~isTyped(F[i])
         /\ \A j \in 1..(i - 1) : isTyped(F[j])

\* C14 as stated: typed(D1, ..., Dn) is the dispatcher of the union of the
\* attached maps; a key with differing implementations fails with 'defined
\* twice', an argument that is no dispatcher with an error carrying its index.
MergingAsClaimed ==
  fn3 # NoMerge => mergesAsClaimed(functionsOf(fn3.of))

\* C14: the same, for dispatchers whose names, where given, are one name;
\* with two names typed fails with 'Function names do not match'.
Merging ==
  fn3 # NoMerge =>
    LET F == functionsOf(fn3.of)
    IN  IF namesAgree(F) THEN mergesAsClaimed(F)
        ELSE fn3.fn.error = "Function names do not match"

MergingWitness ==
  /\ fn3.of = <<"fn", "fn2">>
  /\ fn.name = "a" /\ fn2.name = ""
  /\ fn.signatures = <<<<<<"number">>, "f">>, <<<<"string">>, "g">>>>
  /\ fn2.signatures = <<<<<<"number">>, "f">>, <<<<"number", ",", "string">>, "g">>>>
  /\ fn3.fn.error = ""
  /\ fn3.fn.name = "a"
  /\ fn3.fn.signatures =
       <<<<<<"number">>, "f">>, <<<<"string">>, "g">>, <<<<"number", ",", "string">>, "g">>>>

(***************************************************************************)
(* Changes of the typed object after a dispatcher was compiled.  The       *)
(* generated function holds the tests, conversions and implementations it  *)
(* took from refs at compile time; of the typed object it reads at call    *)
(* time typed.types only, in createError's getTypeOf(actual).              *)
(***************************************************************************)
ValuePerson == Value("person")
ValueSymbol == Value("sym")

SnapshotTexts == {<<"number">>, <<"boolean">>, <<"Object">>, VarArgs(<<"number">>)}

SnapshotValues == {Value1, ValuePerson, ValueSymbol}

SnapshotArgs == SeqsUpTo(SnapshotValues, 2)

\* the changes made once fn is compiled
changeLater(names, convs, ignored) ==
  /\ fn # NoFn /\ fn2 = NoFn
  /\ \/ \E name \in names : ~contains(types, name) /\ addType(name)
     \/ \E c \in convs : ~contains(conversions, c) /\ addConversion(c)
     \/ \E name \in ignored : addIgnore(name)

NextSnapshot ==
  \/ register({b2n})
  \/ composeFirst(MappingsOf(SnapshotTexts))
  \/ changeLater({"Person", "Symbol"}, {b2n, b2s}, {"number", "boolean"})
  \/ composeSecond({raw})
  \/ callWith(SnapshotValues)

SpecSnapshot == Init /\ [][NextSnapshot]_vars

\* the type name in the message of a thrown error: createError reads it with
\* getTypeOf(actual) from the registry as it is at the call
actualType(outcome, registry) ==
  IF outcome.kind = "throw" /\ outcome.error.message = "Unexpected type of argument"
    THEN getTypeOf(outcome.error.actual, registry)
    ELSE ""

\* d(a...) called while the registry is as given: the outcome and the text
\* of the message
Behaviour(d, a, registry) ==
  [outcome |-> Call(d, a), actualType |-> actualType(Call(d, a), registry)]

\* C15: addType, addConversion and a change of the ignore list leave what a
\* compiled dispatcher does on every argument list as it was.
SnapshotUnchanged ==
  [][fn.error = "" =>
       \A a \in SnapshotArgs : Behaviour(fn', a, types') = Behaviour(fn, a, types)]_vars

(***************************************************************************)
(* Errors of the construction: no signature, an unregistered type, a       *)
(* variadic param that is not the last.                                    *)
(***************************************************************************)
EagerTexts ==
  {<<"number">>, <<"string">>, <<"Number">>, <<"Foo">>,
   Comma(<<"number">>, <<"Foo">>),
   VarArgs(Union(<<"number">>, <<"Foo">>)),
   VarArgs(Union(<<"any">>, <<"Foo">>)),
   Comma(VarArgs(<<"number">>), <<"string">>)}

EagerValues == {Value1, ValueX}

\* typed.ignore is filled before the dispatcher is composed
ignoreFirst(names) == \E name \in names : fn = NoFn /\ addIgnore(name)

NextEager ==
  \/ ignoreFirst({"string", "Foo"})
  \/ composeFirst(MappingsOf(EagerTexts) \cup {<<>>})
  \/ callWith(EagerValues)

SpecEager == Init /\ [][NextEager]_vars

\* a param before the last one of some signature is variadic
misplacedVarArgs(mapping) ==
  \E i \in 1..Len(mapping) : signatureSyntaxError(mapping[i][1])

\* every signature of the mapping is ignored (none, when it is empty)
allIgnored(mapping, typed) ==
  \A i \in 1..Len(mapping) : sigIgnore(declared(mapping, i), typed.ignore)

\* C16: a mapping without a signature left, a signature with an unregistered
\* type name and a variadic param before the last one each make typed throw
\* instead of returning a dispatcher; the 'Unknown type' error names an
\* unregistered type of the mapping and hints at the registered name that
\* equals it in lower case, when there is one.
EagerErrors ==
  fn # NoFn =>
    LET typed == fn.compiledWith
    IN  /\ misplacedVarArgs(raw) => fn.error # ""
        /\ (~misplacedVarArgs(raw) /\ allIgnored(raw, typed)) =>
             fn.error = "No signatures provided"
        /\ (~misplacedVarArgs(raw) /\
            \E i \in 1..Len(raw) :
              /\ ~sigIgnore(declared(raw, i), typed.ignore)
              /\ \E k \in 1..Len(declared(raw, i).params) :
                   \E t \in 1..Len(declared(raw, i).params[k].types) :
                     /\ declared(raw, i).params[k].types[t] # "any"
                     /\ ~contains(typed.types, declared(raw, i).params[k].types[t]))
             => fn.error # ""
        /\ fn.error = "Unknown type" =>
             \A impl \in engines :
               LET name == unknownTypeOf(
                             treeOf(parseSignatures(raw, typed, impl).value, typed, impl),
                             typed)
                   hint == hintFor(name, typed.types)
               IN  /\ ~contains(typed.types, name)
                   /\ \E i \in 1..Len(raw) :
                        \E k \in 1..Len(declared(raw, i).params) :
                          contains(declared(raw, i).params[k].types, name)
                   /\ IF \E r \in 1..Len(typed.types) :
                           toLowerCase(typed.types[r]) = toLowerCase(name)
                        THEN /\ contains(typed.types, hint)
                             /\ toLowerCase(hint) = toLowerCase(name)
                        ELSE hint = ""

(***************************************************************************)
(* typed.addType with names that are registered and names that are not.    *)
(* An entry of the model is its name: a second entry of a name carries the *)
(* test of the first.                                                      *)
(***************************************************************************)
RegistryNames == {"number", "Person", "Symbol"}

RegistryTexts == {<<"number">>, <<"Person">>, <<"Object">>}

RegistryValues == {Value1, ValuePerson}

\* the types are added before the dispatcher is composed
addTypeFirst(names) == \E name \in names : fn = NoFn /\ addType(name)

NextRegistry ==
  \/ addTypeFirst(RegistryNames)
  \/ composeFirst(MappingsOf(RegistryTexts))
  \/ callWith(RegistryValues)

SpecRegistry == Init /\ [][NextRegistry]_vars

\* C17: no two entries of the registry have the same name.
UniqueTypeNames ==
  \A i \in 1..Len(types) : \A j \in 1..Len(types) : types[i] = types[j] => i = j

(***************************************************************************)
(* getTypeOf over registries with the `Object` entry at every position,    *)
(* and without it.  typed.types is the caller's to reorder.                *)
(***************************************************************************)
TypeOfBases ==
  {<<"number", "string", "Array", "Person">>, <<"Person", "Array", "number">>}

\* the registry with `Object` put in after the first k entries
withObjectAt(registry, k) ==
  SubSeq(registry, 1, k) \o <<"Object">> \o SubSeq(registry, k + 1, Len(registry))

TypeOfRegistries ==
  TypeOfBases \cup {DefaultTypes} \cup
  UNION {{withObjectAt(b, k) : k \in 0..Len(b)} : b \in TypeOfBases}

TypeOfValues == {Value1, ValueX, ValueArray, ValuePerson, ValueSymbol}

InitTypeOf ==
  /\ types \in TypeOfRegistries
  /\ conversions = <<>>
  /\ ignore = <<>>
  /\ raw = <<>>
  /\ fn = NoFn
  /\ raw2 = <<>>
  /\ fn2 = NoFn
  /\ args = <<>>
  /\ out = None
  /\ out2 = None
  /\ find1 = <<>>
  /\ found = ""
  /\ made = NoCall
  /\ fn3 = NoMerge
  /\ compared = NoCompare

NextTypeOf ==
  \E actual \in TypeOfValues : \E index \in 0..1 :
    \E expected \in {<<>>, <<"number">>} :
      createErrorCall("", 1, index, actual, expected)

SpecTypeOf == InitTypeOf /\ [][NextTypeOf]_vars

\* the entries other than `Object` whose test accepts x
acceptingOthers(x) ==
  {i \in 1..Len(types) : types[i] # "Object" /\ typeTest(types[i], x)}

\* C18: getTypeOf gives the name of the first entry other than `Object` that
\* accepts the value; `Object` when there is none and the `Object` entry
\* accepts it; `unknown` when no entry accepts it.  An array is an `Array`
\* wherever the `Object` entry is.
ObjectDeferred ==
  made # NoCall =>
    LET x == made.actual
        others == acceptingOthers(x)
    IN  /\ others # {} =>
             made.actualType = types[CHOOSE i \in others : \A j \in others : i <= j]
        /\ (others = {} /\ contains(types, "Object") /\ typeTest("Object", x)) =>
             made.actualType = "Object"
        /\ (others = {} /\ ~(contains(types, "Object") /\ typeTest("Object", x))) =>
             made.actualType = "unknown"
        /\ (x = ValueArray /\ contains(types, "Array")) => made.actualType = "Array"

ObjectDeferredWitness ==
  /\ made.actual = ValueArray
  /\ types[1] = "Object"
  /\ contains(types, "Array")
  /\ made.actualType = "Array"

(***************************************************************************)
(* Param.compare on params of registered types, of `any`, of `Object`, of  *)
(* an unregistered type, and on params that carry a conversion.            *)
(***************************************************************************)
\* the param expand makes of a conversion
Converting(conversion) ==
  [types |-> <<conversion.from>>, conversions |-> <<conversion>>, varArgs |-> FALSE]

CompareParams ==
  {Param(t) : t \in {<<"number">>, <<"string">>, <<"any">>, <<"Object">>, <<"Foo">>,
                     VarArgs(<<"any">>), VarArgs(Union(<<"Array">>, <<"Object">>))}}
  \cup {Converting(b2n), Converting(b2s)}

NextCompare ==
  \/ register({b2n, b2s})
  \/ \E a \in CompareParams : \E b \in CompareParams : \E c \in CompareParams :
       ~compared.called /\ compareCall(a, b, c)

SpecCompare == Init /\ [][NextCompare]_vars

sign(x) == IF x > 0 THEN 1 ELSE IF x < 0 THEN -1 ELSE 0

\* C19: Param.compare returns a number; compare(a, b) and compare(b, a) have
\* opposite signs, and are both 0 on a tie; compare(a, b) <= 0 and
\* compare(b, c) <= 0 imply compare(a, c) <= 0.
ComparatorTotalOrder ==
  compared.called =>
    /\ compared.ab # NaN /\ compared.ba # NaN /\ compared.bc # NaN /\ compared.ac # NaN
    /\ sign(compared.ab) = -sign(compared.ba)
    /\ (compared.ab <= 0 /\ compared.bc <= 0) => compared.ac <= 0

(***************************************************************************)
(* The childs of the nodes of the tree.                                    *)
(***************************************************************************)
TreeTexts ==
  {<<"number">>, <<"string">>, <<"any">>, <<"Object">>,
   VarArgs(<<"string">>), VarArgs(Union(<<"number">>, <<"string">>)),
   VarArgs(<<"any">>), Comma(<<"number">>, <<"string">>),
   Comma(<<"number">>, VarArgs(<<"string">>))}

\* a mapping of a type, a variadic param of another type, and a variadic
\* param of both
TreeTriples ==
  {<<<<<<"number">>, "f">>, <<VarArgs(<<"string">>), "g">>,
     <<VarArgs(Union(Union(<<"boolean">>, <<"number">>), <<"string">>)), "h">>>>,
   <<<<VarArgs(Union(Union(<<"boolean">>, <<"number">>), <<"string">>)), "h">>,
     <<VarArgs(<<"string">>), "g">>, <<<<"number">>, "f">>>>}

TreeValues == {Value1, ValueX, ValueTrue}

NextTree ==
  \/ register({b2n})
  \/ composeFirst(MappingsOf(TreeTexts) \cup TreeTriples)
  \/ callWith(TreeValues)

SpecTree == Init /\ [][NextTree]_vars

RECURSIVE missedConflict(_, _, _, _)
\* in the tree of the signatures, from the depth index on, some signature's
\* param overlaps the param of a variadic entry made before it, and the
\* grouping does not fail
missedConflict(signatures, index, typed, impl) ==
  LET F == sortFiltered(signatures, index, typed, impl)
      G == groupEntries(F, index, <<>>)
  IN  /\ G.error = ""
      /\ \/ \E k \in 1..Len(F) :
              LET E == groupEntries(SubSeq(F, 1, k - 1), index, <<>>).value
              IN  \E e \in 1..Len(E) :
                    /\ E[e].param.varArgs
                    /\ overlapping(E[e].param, F[k].params[index + 1])
         \/ \E e \in 1..Len(G.value) :
              missedConflict(G.value[e].signatures, index + 1, typed, impl)

\* the childs of the node carry params that share no type name
childsDisjoint(node) ==
  \A i \in 1..Len(node.childs) : \A j \in 1..Len(node.childs) :
    i # j => ~overlapping(nodeParam(node.childs[i]), nodeParam(node.childs[j]))

\* the childs of the node are in the order of Param.compare
childsOrdered(node, typed) ==
  \A i \in 1..Len(node.childs) : \A j \in 1..Len(node.childs) :
    i < j => LT0(ParamCompare(nodeParam(node.childs[i]), nodeParam(node.childs[j]), typed))
             \/ ParamCompare(nodeParam(node.childs[i]), nodeParam(node.childs[j]), typed) = 0

\* C20: in the tree of a dispatcher the childs of every node carry
\* pairwise non-overlapping params in the order of Param.compare, and no
\* signature's param overlaps a variadic entry made before it.
ChildInvariant ==
  fn.error = "" =>
    /\ \A n \in nodesOf(fn.node) :
         childsDisjoint(n) /\ childsOrdered(n, fn.compiledWith)
    /\ \A impl \in engines :
         ~missedConflict(compiledSignatures(impl), 0, fn.compiledWith, impl)

(***************************************************************************)
(* The pruning of the conversions of variadic params (parseSignatures,     *)
(* after the sort).                                                        *)
(***************************************************************************)
PruneTexts ==
  {<<"number">>, <<"boolean">>, VarArgs(<<"number">>), VarArgs(<<"boolean">>),
   VarArgs(Union(<<"number">>, <<"string">>)),
   Comma(<<"number">>, VarArgs(<<"number">>)),
   Comma(<<"string">>, <<"number">>), Comma(<<"string">>, <<"boolean">>)}

PruneValues == {Value1, ValueTrue}

NextPrune ==
  \/ register({b2n, b2s})
  \/ composeFirst(MappingsOf(PruneTexts))
  \/ callWith(PruneValues)

SpecPrune == Init /\ [][NextPrune]_vars

\* the signatures of fn as they are sorted, before the pruning
sortedUnpruned(impl) ==
  LET r == collectKeys(raw, 1, [error |-> "", value |-> <<>>], fn.compiledWith)
  IN  sortSignatures([i \in 1..Len(r.value) |-> [r.value[i].signature EXCEPT !.id = i]],
                     fn.compiledWith, impl)

\* some signature other than the i-th has at index k a non-variadic param
\* that holds the type without a conversion
acceptedDirectly(signatures, i, k, type) ==
  \E j \in 1..Len(signatures) :
    /\ j # i
    /\ Len(signatures[j].params) > k
    /\ ~signatures[j].params[k + 1].varArgs
    /\ \E u \in 1..Len(signatures[j].params[k + 1].types) :
         /\ signatures[j].params[k + 1].types[u] = type
         /\ conversionAt(signatures[j].params[k + 1], u - 1) = Hole

\* the entries of the trailing param of the i-th signature the claim keeps
keptEntries(signatures, i) ==
  LET k == Len(signatures[i].params) - 1
      param == signatures[i].params[k + 1]
  IN  SelectSeq([t \in 1..Len(param.types) |->
                   [type |-> param.types[t], conversion |-> conversionAt(param, t - 1)]],
                LAMBDA e : ~(e.conversion # Hole /\
                             acceptedDirectly(signatures, i, k, e.type)))

\* the entries of a param: its types, each with its conversion
entriesOf(param) ==
  [t \in 1..Len(param.types) |->
     [type |-> param.types[t], conversion |-> conversionAt(param, t - 1)]]

\* C21: the pruning takes from the trailing param of a variadic signature
\* the entries that carry a conversion whose `from` type another signature
\* holds at that index directly in a non-variadic param, type and conversion
\* together, and nothing else.
PruningExact ==
  (fn # NoFn /\ fn.error \notin {"SyntaxError", "defined twice"}) =>
    \A impl \in engines :
      LET before == sortedUnpruned(impl)
          after == compiledSignatures(impl)
      IN  /\ Len(after) = Len(before)
          /\ \A i \in 1..Len(before) :
               IF sigVarArgs(before[i])
                 THEN /\ Len(after[i].params) = Len(before[i].params)
                      /\ entriesOf(last(after[i].params)) = keptEntries(before, i)
                      /\ \A k \in 1..(Len(before[i].params) - 1) :
                           after[i].params[k] = before[i].params[k]
                 ELSE after[i] = before[i]

(***************************************************************************)
(* The outcome of a call: the generated function, run to its end.          *)
(***************************************************************************)
OutcomeTexts ==
  {<<"number">>, <<"string">>, <<"any">>, VarArgs(<<"number">>), VarArgs(<<"any">>),
   Comma(<<"number">>, <<"string">>), Comma(<<"any">>, <<"number">>),
   Comma(<<"string">>, <<"any">>), Comma(<<"number">>, VarArgs(<<"string">>)),
   Comma(Comma(<<"any">>, <<"any">>), <<"number">>)}

OutcomeValues == {Value1, ValueX, ValueTrue}

NextOutcome ==
  \/ register({b2n})
  \/ composeFirst(MappingsOf(OutcomeTexts))
  \/ callWith(OutcomeValues)

SpecOutcome == Init /\ [][NextOutcome]_vars

\* C22: a call of a dispatcher returns what one implementation of the
\* mapping, invoked once, returned, or throws the error createError made,
\* no implementation invoked; it does not end otherwise.
SingleOutcome ==
  (fn.error = "" /\ args # <<>>) =>
    \/ /\ out.kind = "return"
       /\ \E i \in 1..Len(raw) : raw[i][2] = out.fn
       /\ out.error = NoError
    \/ /\ out.kind = "throw"
       /\ out.fn = ""
       /\ out.error # NoError

====
